---- MODULE Spec2Model ----
(***************************************************************************)
(* Cash-ledger browser client: the report view (ReportsPage.tsx), the      *)
(* live-ledger view (CashPage.tsx), the login page (LoginPage.tsx), the    *)
(* shared HTTP client (api.ts) and the session store (auth.ts), as one     *)
(* state machine.                                                          *)
(*                                                                         *)
(* Execution is a single-threaded event loop: every action below is one    *)
(* event-loop task (a user event handler, a timer callback, or the         *)
(* continuation that runs when a response arrives), including the render   *)
(* and the effects that React runs after it.                               *)
(*                                                                         *)
(* Text that the code trims or joins is a sequence of one-character        *)
(* strings; other strings (dates, enum values, fixed messages) are atoms.  *)
(***************************************************************************)
EXTENDS Integers, Sequences, FiniteSets, TLC

VARIABLES
    \* ---- session store (localStorage) and router
    token,          \* localStorage[TOKEN_KEY], or None
    user,           \* localStorage[USER_KEY], or None
    route,          \* the mounted view: "reports", "cash" or "login"
    issued,         \* number of requests issued so far (request ids)
    lastEvent,      \* the kind of the event-loop task that ran last
    \* ---- ReportsPage state
    items, loading, rError, filters,
    timers,         \* pending window.setTimeout callbacks of the debounce effect
    reportReqs,     \* GET /cash-entries of loadReport, in flight
    changes,        \* filter changes the user has made
    firedSinceChange, \* timer callbacks run since the last filter change
    lastTimerParams,  \* params of the request the last timer callback issued
    itemsFrom,      \* id of the request whose response `items` shows, or 0
    \* ---- CashPage state
    entries, summary, selectedDate, cTypeFilter, paymentFilter,
    loadingDashboard, submitting, cError, form,
    dashReqs,       \* loadDashboard invocations awaiting Promise.all
    createReqs,     \* POST /cash-entries in flight
    deleteReqs,     \* DELETE /cash-entries/{id} in flight
    entriesFrom,    \* id of the loadDashboard whose list `entries` shows, or 0
    summaryFrom,    \* id of the loadDashboard whose summary is shown, or 0
    \* ---- receipt digitization (CashPage)
    scanningReceipt, ocrInfo,
    inputValue,     \* receiptInputRef.current.value: Chosen, or "" after a reset
    scans,          \* handleScanReceiptFile invocations that are suspended
    \* ---- LoginPage state
    loginView,      \* mode, name, email, password, loading, message, error
    authReqs        \* POST /login and POST /register in flight

sessionVars == <<token, user, route, issued, lastEvent>>
reportVars == <<items, loading, rError, filters, timers, reportReqs,
                changes, firedSinceChange, lastTimerParams, itemsFrom>>
dashVars == <<entries, summary, selectedDate, cTypeFilter, paymentFilter,
              loadingDashboard, dashReqs, entriesFrom, summaryFrom>>
entryVars == <<submitting, cError, form, createReqs, deleteReqs>>
scanVars == <<scanningReceipt, ocrInfo, inputValue, scans>>
cashVars == <<dashVars, entryVars, scanVars>>
loginVars == <<loginView, authReqs>>
vars == <<sessionVars, reportVars, cashVars, loginVars>>

None == "none"

\* the latest event-loop task: its kind and, for a step of the receipt
\* workflow, the value it received (for an applied Recognition Result, also
\* the draft as it was when that scan started)
Event(tag, arg) == [tag |-> tag, arg |-> arg]
Other == Event("other", <<>>)

\* ---------------------------------------------------------------- bounds
\* Requests issued in one behaviour of the report view.
MaxReq == 2
\* Filter changes a user makes in the report view in one behaviour.
MaxChanges == 2
\* Requests issued in one behaviour of the live-ledger view.
MaxCashReq == 2
\* Clock step: how far time advances between two events.
StepMs == 250
\* Requests a user starts in one behaviour that begins at the login page.
MaxSessionReq == 3
\* Requests issued in one behaviour of the entry form, so that a second
\* submission fits after the first.
MaxSubmitReq == 3

\* ------------------------------------------------------------- constants
DebounceMs == 250
MaxPayloadChars == 9500000

\* ------------------------------------------------------------------ text
Blank == " "

RECURSIVE TrimLeft(_)
TrimLeft(s) ==
    IF s # <<>> /\ Head(s) = Blank THEN TrimLeft(Tail(s)) ELSE s

RECURSIVE TrimRight(_)
TrimRight(s) ==
    IF s # <<>> /\ s[Len(s)] = Blank
    THEN TrimRight(SubSeq(s, 1, Len(s) - 1))
    ELSE s

\* String.prototype.trim
Trim(s) == TrimRight(TrimLeft(s))

\* Array.prototype.join(", ") over an array of texts
RECURSIVE Join(_)
Join(a) ==
    IF a = <<>> THEN <<>>
    ELSE IF Len(a) = 1 THEN a[1]
    ELSE a[1] \o <<",", " ">> \o Join(Tail(a))

\* ------------------------------------------------------- session, client
Tokens == {"t1"}
Users == {"u1"}

\* api.interceptors.request: the Authorization header of an outgoing request
NoHeader == <<>>
HeaderOfFirstToken(stored) == <<"Bearer", "t1">>
\* Boolean(x) of a stored string or null
Boolean(x) == x # None /\ x # ""

AuthHeader(stored) ==
    IF Boolean(stored) THEN <<"Bearer", stored>> ELSE NoHeader

TokenRemovedOnly == /\ token' = None
                    /\ user' = user
\* auth.ts logout
LoggedOut == /\ token' = None
             /\ user' = None

\* auth.ts getToken
GetToken == token

TokenStored == token # None
\* auth.ts isAuthenticated
IsAuthenticated == Boolean(GetToken)

\* JSON.stringify of an AuthUser, and JSON.parse of a stored text: the text
\* of a user is the atom of its id, any other text does not parse
JsonStringify(u) == u.id
JsonParse(raw) ==
    IF raw \in {"u1", "u2"}
    THEN [ok |-> TRUE, value |-> [id |-> raw]]
    ELSE [ok |-> FALSE, value |-> None]

\* what getCurrentUser leaves under USER_KEY when it finds `raw` there: a
\* text that does not parse is removed
AfterGetCurrentUser(raw) ==
    IF ~Boolean(raw) THEN raw
    ELSE IF JsonParse(raw).ok THEN raw
    ELSE None

SetSessionTokenOnly(accessToken, u) ==
    /\ token' = accessToken
    /\ user' = user
\* auth.ts setSession, followed by the getCurrentUser() of the next render
SetSession(accessToken, u) ==
    /\ token' = accessToken
    /\ user' = AfterGetCurrentUser(JsonStringify(u))

\* handleUnauthorized: logout(); navigate('/login', {replace: true})
HandleUnauthorized == /\ LoggedOut
                      /\ route' = "login"

\* ---------------------------------------------------------- server data
InEntry == [id |-> "e1", type |-> "IN", amount |-> 12050]
OutEntry == [id |-> "e2", type |-> "OUT", amount |-> 4590]
EntryLists == {<<InEntry>>, <<OutEntry, InEntry>>}

\* err.response.data.message of a failed call: absent, a string, or an
\* array of strings
NoMessage == [kind |-> "absent", text |-> <<>>, parts |-> <<>>]
StringMessage(t) == [kind |-> "string", text |-> t, parts |-> <<>>]
ArrayMessage(a) == [kind |-> "array", text |-> <<>>, parts |-> a]
ApiMessages ==
    {NoMessage, StringMessage(<<"m">>), StringMessage(<<" ">>),
     ArrayMessage(<<>>), ArrayMessage(<<<<"a">>, <<"b">>>>)}
IsArray(m) == m.kind = "array"

\* ============================================================ ReportsPage
TypeFilters == {"ALL", "IN", "OUT"}
DateInputs == {"", "2024-03-01"}
TextInputs == {<<>>, <<" ">>, <<"a", " ">>}
AmountInputs == {"", "10"}

FilterStates ==
    [typeFilter : TypeFilters, dateFrom : DateInputs, dateTo : DateInputs,
     category : TextInputs, description : TextInputs,
     minAmount : AmountInputs, maxAmount : AmountInputs]

DefaultFilters ==
    [typeFilter |-> "ALL", dateFrom |-> "", dateTo |-> "", category |-> <<>>,
     description |-> <<>>, minAmount |-> "", maxAmount |-> ""]

\* the params object of loadReport: a predicate is a key only when it is set
ReportParamKeys(f) ==
    (IF f.typeFilter # "ALL" THEN {"type"} ELSE {})
    \cup (IF f.dateFrom # "" THEN {"dateFrom"} ELSE {})
    \cup (IF f.dateTo # "" THEN {"dateTo"} ELSE {})
    \cup (IF Trim(f.category) # <<>> THEN {"category"} ELSE {})
    \cup (IF Trim(f.description) # <<>> THEN {"description"} ELSE {})
    \cup (IF f.minAmount # "" THEN {"minAmount"} ELSE {})
    \cup (IF f.maxAmount # "" THEN {"maxAmount"} ELSE {})

ReportParams(f) ==
    [k \in ReportParamKeys(f) |->
        CASE k = "type" -> f.typeFilter
          [] k = "dateFrom" -> f.dateFrom
          [] k = "dateTo" -> f.dateTo
          [] k = "category" -> Trim(f.category)
          [] k = "description" -> Trim(f.description)
          [] k = "minAmount" -> f.minAmount
          [] k = "maxAmount" -> f.maxAmount]

\* requests a behaviour is already committed to issue: one per pending timer
Committed == issued + Cardinality(timers)

\* loadReport up to its await: setLoading(true); setError(''); api.get(...)
\* `f` is the filter state of the render whose closure runs.
LoadReportStart(f) ==
    /\ issued' = issued + 1
    /\ reportReqs' = reportReqs \cup
          {[id |-> issued + 1, params |-> ReportParams(f),
            auth |-> AuthHeader(token), tok |-> token]}
    /\ IF route = "reports"
       THEN loading' = TRUE /\ rError' = <<>>
       ELSE UNCHANGED <<loading, rError>>

TimersLeftPending(old) == old
TimersDueKept(old) == {t \in old : t.due = 0}
\* the cleanup of the debounce effect: window.clearTimeout(timer)
ClearedTimers(old) == {}

EffectAlwaysRerun(old, new) == TRUE
\* the debounce effect after a render with filter state `f`: React runs
\* the previous effect's cleanup and the effect again when a dependency
\* differs from the previous render's
EffectDepsChanged(old, new) == old # new

DebounceEffect(old, new) ==
    IF EffectDepsChanged(old, new)
    THEN timers' = ClearedTimers(timers) \cup {[snap |-> new, due |-> DebounceMs]}
    ELSE UNCHANGED timers

FieldInputs(field) ==
    CASE field = "typeFilter" -> TypeFilters
      [] field \in {"dateFrom", "dateTo"} -> DateInputs
      [] field \in {"category", "description"} -> TextInputs
      [] field \in {"minAmount", "maxAmount"} -> AmountInputs

\* a filter control's onChange (setTypeFilter, setDateFrom, ...) with a
\* value other than the current one
ChangeFilter(field, value) ==
    /\ route = "reports"
    /\ changes < MaxChanges
    /\ Committed < MaxReq
    /\ filters[field] # value
    /\ filters' = [filters EXCEPT ![field] = value]
    /\ DebounceEffect(filters, filters')
    /\ changes' = changes + 1
    /\ firedSinceChange' = 0
    /\ lastEvent' = Other
    /\ UNCHANGED <<token, user, route, issued, items, loading, rError,
                   reportReqs, lastTimerParams, itemsFrom>>
    /\ UNCHANGED <<cashVars, loginVars>>

\* clearFilters: the seven setters in one batch
ClearFilters ==
    /\ route = "reports"
    /\ changes < MaxChanges
    /\ Committed < MaxReq
    /\ filters' = DefaultFilters
    /\ DebounceEffect(filters, filters')
    /\ changes' = IF filters' # filters THEN changes + 1 ELSE changes
    /\ firedSinceChange' = IF filters' # filters THEN 0 ELSE firedSinceChange
    /\ lastEvent' = Event("clearFilters", <<>>)
    /\ UNCHANGED <<token, user, route, issued, items, loading, rError,
                   reportReqs, lastTimerParams, itemsFrom>>
    /\ UNCHANGED <<cashVars, loginVars>>

\* time passes: every pending timer comes StepMs closer to its deadline
Tick ==
    /\ \E t \in timers : t.due > 0
    /\ timers' = {[t EXCEPT !.due = IF t.due > StepMs THEN t.due - StepMs ELSE 0] :
                    t \in timers}
    /\ lastEvent' = Other
    /\ UNCHANGED <<token, user, route, issued, items, loading, rError, filters,
                   reportReqs, changes, firedSinceChange, lastTimerParams,
                   itemsFrom>>
    /\ UNCHANGED <<cashVars, loginVars>>

\* the timer callback: void loadReport()
TimerFire ==
    \E t \in timers :
        /\ t.due = 0
        /\ timers' = timers \ {t}
        /\ LoadReportStart(t.snap)
        /\ firedSinceChange' = firedSinceChange + 1
        /\ lastTimerParams' = ReportParams(t.snap)
        /\ lastEvent' = Other
        /\ UNCHANGED <<token, user, route, items, filters, changes, itemsFrom>>
        /\ UNCHANGED <<cashVars, loginVars>>

\* the "Atualizar" button: onClick={() => void loadReport()}
RefreshReport ==
    /\ route = "reports"
    /\ Committed < MaxReq
    /\ LoadReportStart(filters)
    /\ lastEvent' = Other
    /\ UNCHANGED <<token, user, route, items, filters, timers, changes,
                   firedSinceChange, lastTimerParams, itemsFrom>>
    /\ UNCHANGED <<cashVars, loginVars>>

ReportOkMerged(r, data) ==
    /\ r \in reportReqs
    /\ reportReqs' = reportReqs \ {r}
    /\ IF route = "reports"
       THEN /\ items' = items \o data
            /\ itemsFrom' = r.id
            /\ loading' = FALSE
       ELSE UNCHANGED <<items, itemsFrom, loading>>
    /\ lastEvent' = Event("reportOk", data)
    /\ UNCHANGED <<token, user, route, issued, rError, filters, timers,
                   changes, firedSinceChange, lastTimerParams>>
    /\ UNCHANGED <<cashVars, loginVars>>

\* loadReport after its await, response 200: setItems(res.data); finally
\* setLoading(false). State setters of an unmounted view do nothing.
ReportOk(r, data) ==
    /\ r \in reportReqs
    /\ reportReqs' = reportReqs \ {r}
    /\ IF route = "reports"
       THEN /\ items' = data
            /\ itemsFrom' = r.id
            /\ loading' = FALSE
       ELSE UNCHANGED <<items, itemsFrom, loading>>
    /\ lastEvent' = Event("reportOk", data)
    /\ UNCHANGED <<token, user, route, issued, rError, filters, timers,
                   changes, firedSinceChange, lastTimerParams>>
    /\ UNCHANGED <<cashVars, loginVars>>

\* loadReport's catch, response 401: handleUnauthorized(); return; finally
\* setLoading(false). Leaving the route unmounts the view, which runs the
\* debounce effect's cleanup.
ReportUnauthorized(r) ==
    /\ r \in reportReqs
    /\ reportReqs' = reportReqs \ {r}
    /\ HandleUnauthorized
    /\ timers' = ClearedTimers(timers)
    /\ loading' = IF route = "reports" THEN FALSE ELSE loading
    /\ lastEvent' = Event("report401", <<>>)
    /\ UNCHANGED <<issued, items, itemsFrom, rError, filters, changes,
                   firedSinceChange, lastTimerParams>>
    /\ UNCHANGED <<cashVars, loginVars>>

ReportFallback == <<"Falha ao carregar relatorio.">>

ReportFailKeepsLoading(r, message) ==
    /\ r \in reportReqs
    /\ reportReqs' = reportReqs \ {r}
    /\ IF route = "reports"
       THEN rError' = IF IsArray(message) THEN Join(message.parts)
                                          ELSE ReportFallback
       ELSE UNCHANGED rError
    /\ lastEvent' = Other
    /\ UNCHANGED <<token, user, route, issued, items, itemsFrom, filters,
                   timers, changes, firedSinceChange, lastTimerParams, loading>>
    /\ UNCHANGED <<cashVars, loginVars>>

ReportFailClearsFilters(r, message) ==
    /\ r \in reportReqs
    /\ reportReqs' = reportReqs \ {r}
    /\ IF route = "reports"
       THEN /\ rError' = IF IsArray(message) THEN Join(message.parts)
                                              ELSE ReportFallback
            /\ loading' = FALSE
            /\ filters' = DefaultFilters
       ELSE UNCHANGED <<rError, loading, filters>>
    /\ lastEvent' = Other
    /\ UNCHANGED <<token, user, route, issued, items, itemsFrom,
                   timers, changes, firedSinceChange, lastTimerParams>>
    /\ UNCHANGED <<cashVars, loginVars>>

\* loadReport's catch, any other failure: setError(...); finally
\* setLoading(false)
ReportFail(r, message) ==
    /\ r \in reportReqs
    /\ reportReqs' = reportReqs \ {r}
    /\ IF route = "reports"
       THEN /\ rError' = IF IsArray(message) THEN Join(message.parts)
                                              ELSE ReportFallback
            /\ loading' = FALSE
       ELSE UNCHANGED <<rError, loading>>
    /\ lastEvent' = Other
    /\ UNCHANGED <<token, user, route, issued, items, itemsFrom, filters,
                   timers, changes, firedSinceChange, lastTimerParams>>
    /\ UNCHANGED <<cashVars, loginVars>>

\* =============================================================== CashPage
\* todayDateInput()
Today == "2024-03-01"
CashDates == {Today, "2024-03-02", ""}
CashTypeFilters == {"ALL", "OUT"}
PaymentFilters == {"ALL", "PIX"}

\* DailyCashSummary; useState(null) is the summary that is not present
NoSummary == [present |-> FALSE, date |-> "", totalOut |-> 0, countOut |-> 0]
SummariesFor(date) ==
    {[present |-> TRUE, date |-> date, totalOut |-> 0, countOut |-> 0],
     [present |-> TRUE, date |-> date, totalOut |-> 4590, countOut |-> 1]}

\* CreateCashEntryDto held by the form
InitialForm ==
    [type |-> "IN", paymentMethod |-> "PIX", amount |-> 0, description |-> <<>>,
     category |-> <<>>, entryDate |-> Today]

\* the closure of a render: the filter values loadDashboard reads
CashSnap == [date |-> selectedDate, type |-> cTypeFilter, payment |-> paymentFilter]

DashListParamsOfIncome(snap) == [date |-> snap.date, type |-> "IN"]
\* params of GET /cash-entries in loadDashboard
DashListParamKeys(snap) ==
    {"date"}
    \cup (IF snap.type # "ALL" THEN {"type"} ELSE {})
    \cup (IF snap.payment # "ALL" THEN {"paymentMethod"} ELSE {})

DashListParams(snap) ==
    [k \in DashListParamKeys(snap) |->
        CASE k = "date" -> snap.date
          [] k = "type" -> snap.type
          [] k = "paymentMethod" -> snap.payment]

\* params of GET /cash-summary/daily in loadDashboard
DashSummaryParams(snap) == [date |-> snap.date]

DashFallback ==
    <<"Nao foi possivel carregar os dados do caixa. Verifique se o backend esta rodando.">>

\* loadDashboard up to its await: setLoadingDashboard(true); setError("");
\* Promise.all([api.get(list), api.get(summary)]). `cont` names the handler
\* that awaits this invocation ("create"), or "none"; `posted` is the body
\* whose POST was answered before that handler called loadDashboard, if any.
LoadDashboardAfter(snap, cont, posted) ==
    /\ issued' = issued + 1
    /\ dashReqs' = dashReqs \cup
          {[id |-> issued + 1, snap |-> snap,
            listParams |-> DashListParams(snap),
            sumParams |-> DashSummaryParams(snap),
            listDone |-> FALSE, listData |-> <<>>,
            sumDone |-> FALSE, sumData |-> NoSummary,
            auth |-> AuthHeader(token), tok |-> token, cont |-> cont,
            posted |-> posted]}
    /\ IF route = "cash"
       THEN loadingDashboard' = TRUE /\ cError' = <<>>
       ELSE UNCHANGED <<loadingDashboard, cError>>

LoadDashboardStart(snap, cont) == LoadDashboardAfter(snap, cont, <<>>)

\* handleCreateEntry after `await loadDashboard()`: finally setSubmitting(false)
AfterDashboard(r) ==
    IF r.cont = "create" /\ route = "cash"
    THEN submitting' = FALSE
    ELSE UNCHANGED submitting

DashPartAppliedAlone(r, done) ==
    /\ dashReqs' = IF done.listDone /\ done.sumDone
                   THEN dashReqs \ {r}
                   ELSE (dashReqs \ {r}) \cup {done}
    /\ IF route = "cash"
       THEN /\ entries' = IF done.listDone THEN done.listData ELSE entries
            /\ entriesFrom' = IF done.listDone THEN r.id ELSE entriesFrom
            /\ summary' = IF done.sumDone THEN done.sumData ELSE summary
            /\ summaryFrom' = IF done.sumDone THEN r.id ELSE summaryFrom
            /\ loadingDashboard' = IF done.listDone /\ done.sumDone
                                   THEN FALSE ELSE loadingDashboard
       ELSE UNCHANGED <<entries, summary, entriesFrom, summaryFrom,
                        loadingDashboard>>
    /\ IF done.listDone /\ done.sumDone
       THEN AfterDashboard(r)
       ELSE UNCHANGED submitting
    /\ lastEvent' = Other
    /\ UNCHANGED <<token, user, route, issued, selectedDate, cTypeFilter,
                   paymentFilter, cError, form, createReqs, deleteReqs>>
    /\ UNCHANGED <<scanVars, reportVars,
                   loginVars>>

\* one of the two responses of a loadDashboard arrives with 200 and leaves
\* the invocation as `done`. When it is the second, Promise.all resolves:
\* setEntries; setSummary; finally setLoadingDashboard(false).
DashPartOk(r, done) ==
    /\ IF done.listDone /\ done.sumDone
       THEN /\ dashReqs' = dashReqs \ {r}
            /\ IF route = "cash"
               THEN /\ entries' = done.listData
                    /\ summary' = done.sumData
                    /\ entriesFrom' = r.id
                    /\ summaryFrom' = r.id
                    /\ loadingDashboard' = FALSE
               ELSE UNCHANGED <<entries, summary, entriesFrom, summaryFrom,
                                loadingDashboard>>
            /\ AfterDashboard(r)
       ELSE /\ dashReqs' = (dashReqs \ {r}) \cup {done}
            /\ UNCHANGED <<entries, summary, entriesFrom, summaryFrom,
                           loadingDashboard, submitting>>
    /\ lastEvent' = IF done.listDone /\ done.sumDone
                    THEN Event("dashOk", done.listData)
                    ELSE Other
    /\ UNCHANGED <<token, user, route, issued, selectedDate, cTypeFilter,
                   paymentFilter, cError, form, createReqs, deleteReqs>>
    /\ UNCHANGED <<scanVars, reportVars,
                   loginVars>>

\* GET /cash-entries of a loadDashboard answers 200
DashListOk(r, list) ==
    /\ r \in dashReqs
    /\ ~r.listDone
    /\ DashPartOk(r, [r EXCEPT !.listDone = TRUE, !.listData = list])

\* GET /cash-summary/daily of a loadDashboard answers 200
DashSummaryOk(r, sum) ==
    /\ r \in dashReqs
    /\ ~r.sumDone
    /\ DashPartOk(r, [r EXCEPT !.sumDone = TRUE, !.sumData = sum])

Parts == {"list", "summary"}

\* one of the two responses is a 401: Promise.all rejects; catch:
\* handleUnauthorized(); return; finally setLoadingDashboard(false)
DashUnauthorized(r, part) ==
    /\ r \in dashReqs
    /\ IF part = "list" THEN ~r.listDone ELSE ~r.sumDone
    /\ dashReqs' = dashReqs \ {r}
    /\ HandleUnauthorized
    /\ loadingDashboard' = IF route = "cash" THEN FALSE ELSE loadingDashboard
    /\ AfterDashboard(r)
    /\ lastEvent' = Event("dash401", <<>>)
    /\ UNCHANGED <<issued, entries, summary, entriesFrom, summaryFrom,
                   selectedDate, cTypeFilter, paymentFilter, cError, form,
                   createReqs, deleteReqs>>
    /\ UNCHANGED <<scanVars, reportVars,
                   loginVars>>

\* one of the two responses fails otherwise: catch: setError(...); finally
\* setLoadingDashboard(false)
DashFail(r, part) ==
    /\ r \in dashReqs
    /\ IF part = "list" THEN ~r.listDone ELSE ~r.sumDone
    /\ dashReqs' = dashReqs \ {r}
    /\ IF route = "cash"
       THEN cError' = DashFallback /\ loadingDashboard' = FALSE
       ELSE UNCHANGED <<cError, loadingDashboard>>
    /\ AfterDashboard(r)
    /\ lastEvent' = Other
    /\ UNCHANGED <<token, user, route, issued, entries, summary, entriesFrom,
                   summaryFrom, selectedDate, cTypeFilter, paymentFilter, form,
                   createReqs, deleteReqs>>
    /\ UNCHANGED <<scanVars, reportVars,
                   loginVars>>

DashboardEffectOfOldRender(old, new) ==
    IF old # new
    THEN LoadDashboardStart(old, "none")
    ELSE UNCHANGED <<issued, dashReqs, loadingDashboard, cError>>
\* useEffect(() => { void loadDashboard() }, [selectedDate, typeFilter,
\* paymentFilter]) after a render: runs when a dependency differs
DashboardEffect(old, new) ==
    IF old # new
    THEN LoadDashboardStart(new, "none")
    ELSE UNCHANGED <<issued, dashReqs, loadingDashboard, cError>>

\* the live-ledger view is mounted: its controls exist
CanAct == route = "cash"

ChangeSelectedDateOnly(v) ==
    /\ CanAct
    /\ issued < MaxCashReq
    /\ v # selectedDate
    /\ selectedDate' = v
    /\ DashboardEffect(CashSnap, [CashSnap EXCEPT !.date = v])
    /\ lastEvent' = Other
    /\ UNCHANGED <<token, user, route, entries, summary, entriesFrom, summaryFrom,
                   cTypeFilter, paymentFilter, submitting, createReqs, deleteReqs,
                   form>>
    /\ UNCHANGED <<scanVars, reportVars,
                   loginVars>>

\* the filter-date input's onChange: setSelectedDate(v); setForm(entryDate: v)
ChangeSelectedDate(v) ==
    /\ CanAct
    /\ issued < MaxCashReq
    /\ v # selectedDate
    /\ selectedDate' = v
    /\ form' = [form EXCEPT !.entryDate = v]
    /\ DashboardEffect(CashSnap, [CashSnap EXCEPT !.date = v])
    /\ lastEvent' = Other
    /\ UNCHANGED <<token, user, route, entries, summary, entriesFrom, summaryFrom,
                   cTypeFilter, paymentFilter, submitting, createReqs, deleteReqs>>
    /\ UNCHANGED <<scanVars, reportVars,
                   loginVars>>

\* the filter-type select's onChange
ChangeTypeFilter(v) ==
    /\ CanAct
    /\ issued < MaxCashReq
    /\ v # cTypeFilter
    /\ cTypeFilter' = v
    /\ DashboardEffect(CashSnap, [CashSnap EXCEPT !.type = v])
    /\ lastEvent' = Other
    /\ UNCHANGED <<token, user, route, entries, summary, entriesFrom, summaryFrom,
                   selectedDate, paymentFilter, submitting, form, createReqs,
                   deleteReqs>>
    /\ UNCHANGED <<scanVars, reportVars,
                   loginVars>>

\* the filter-payment select's onChange
ChangePaymentFilter(v) ==
    /\ CanAct
    /\ issued < MaxCashReq
    /\ v # paymentFilter
    /\ paymentFilter' = v
    /\ DashboardEffect(CashSnap, [CashSnap EXCEPT !.payment = v])
    /\ lastEvent' = Other
    /\ UNCHANGED <<token, user, route, entries, summary, entriesFrom, summaryFrom,
                   selectedDate, cTypeFilter, submitting, form, createReqs,
                   deleteReqs>>
    /\ UNCHANGED <<scanVars, reportVars,
                   loginVars>>

\* the "Hoje" button: setSelectedDate(today); setForm(entryDate: today)
ClickToday ==
    /\ CanAct
    /\ issued < MaxCashReq
    /\ selectedDate' = Today
    /\ form' = [form EXCEPT !.entryDate = Today]
    /\ DashboardEffect(CashSnap, [CashSnap EXCEPT !.date = Today])
    /\ lastEvent' = Other
    /\ UNCHANGED <<token, user, route, entries, summary, entriesFrom, summaryFrom,
                   cTypeFilter, paymentFilter, submitting, createReqs, deleteReqs>>
    /\ UNCHANGED <<scanVars, reportVars,
                   loginVars>>

\* the "Atualizar" button: onClick={() => void loadDashboard()}
RefreshDashboard ==
    /\ CanAct
    /\ issued < MaxCashReq
    /\ LoadDashboardStart(CashSnap, "none")
    /\ lastEvent' = Other
    /\ UNCHANGED <<token, user, route, entries, summary, entriesFrom, summaryFrom,
                   selectedDate, cTypeFilter, paymentFilter, submitting, form,
                   createReqs, deleteReqs>>
    /\ UNCHANGED <<scanVars, reportVars,
                   loginVars>>

\* extractApiMessage(err): the text, or undefined
Undefined == [defined |-> FALSE, text |-> <<>>]
Defined(t) == [defined |-> TRUE, text |-> t]
ExtractApiMessage(m) ==
    IF IsArray(m) THEN Defined(Join(m.parts))
    ELSE IF m.kind = "string" /\ Trim(m.text) # <<>> THEN Defined(m.text)
    ELSE Undefined

\* x ?? fallback
OrElse(x, fallback) == IF x.defined THEN x.text ELSE fallback

FormInputs(field) ==
    CASE field = "type" -> {"IN", "OUT"}
      [] field = "paymentMethod" -> {"PIX", "CASH"}
      [] field = "amount" -> {0, 12050}
      [] field = "description" -> {<<>>, <<"a">>}
      [] field = "category" -> {<<>>, <<"c">>}
      [] field = "entryDate" -> {Today, "2024-03-02"}

\* a form control's onChange / onClick: setForm(prev => ({...prev, field: v}))
EditForm(field, v) ==
    /\ CanAct
    /\ form[field] # v
    /\ form' = [form EXCEPT ![field] = v]
    /\ lastEvent' = Other
    /\ UNCHANGED <<token, user, route, issued, dashVars>>
    /\ UNCHANGED <<submitting, cError, createReqs, deleteReqs>>
    /\ UNCHANGED <<scanVars, reportVars,
                   loginVars>>

\* Number.POSITIVE_INFINITY, as a value above every amount of the model
Infinity == 2000000000
AnyNumberFinite(x) == TRUE
\* Number.isFinite on a number that is not NaN
IsFinite(x) == x # Infinity /\ x # -Infinity

DescriptionRequired == <<"Informe uma descricao para o lancamento.">>
AmountRequired == <<"Informe um valor maior que zero.">>
CreateFallback == <<"Falha ao criar lancamento.">>
DeleteFallback == <<"Falha ao excluir lancamento.">>

\* the body of POST /cash-entries
CreateBody(f) ==
    [f EXCEPT !.description = Trim(f.description),
              !.category = Trim(f.category)]

SubmitAlwaysEnabled == TRUE
\* the submit button is disabled={submitting}
SubmitEnabled == ~submitting

\* handleCreateEntry up to its await, while fewer than `budget` requests
\* have been issued
SubmitCreateWithin(budget) ==
    /\ CanAct
    /\ SubmitEnabled
    /\ issued < budget
    /\ IF Trim(form.description) = <<>>
       THEN /\ cError' = DescriptionRequired
            /\ lastEvent' = Event("createInvalid", <<>>)
            /\ UNCHANGED <<issued, submitting, createReqs>>
       ELSE IF ~IsFinite(form.amount) \/ form.amount <= 0
       THEN /\ cError' = AmountRequired
            /\ lastEvent' = Event("createInvalid", <<>>)
            /\ UNCHANGED <<issued, submitting, createReqs>>
       ELSE /\ cError' = <<>>
            /\ submitting' = TRUE
            /\ issued' = issued + 1
            /\ createReqs' = createReqs \cup
                  {[id |-> issued + 1, body |-> CreateBody(form), snap |-> CashSnap,
                    auth |-> AuthHeader(token), tok |-> token]}
            /\ lastEvent' = Event("createSubmit", <<>>)
    /\ UNCHANGED <<token, user, route, form, deleteReqs>>
    /\ UNCHANGED <<dashVars, scanVars, reportVars,
                   loginVars>>

\* the form's onSubmit
SubmitCreate == SubmitCreateWithin(MaxCashReq)

AlwaysFallback(x, fallback) == fallback
\* x ?? fallback on a value that is a string or undefined (None)
NullishOr(x, fallback) == IF x = None THEN fallback ELSE x

\* handleCreateEntry after its await, response 2xx: reset the draft, then
\* `await loadDashboard()` of the closure that submitted
CreateOk(r) ==
    /\ r \in createReqs
    /\ createReqs' = createReqs \ {r}
    /\ form' = IF route = "cash"
               THEN [form EXCEPT !.amount = 0, !.description = <<>>,
                                 !.category = <<>>,
                                 !.entryDate = NullishOr(@, r.snap.date)]
               ELSE form
    /\ LoadDashboardAfter(r.snap, "create", <<r.body>>)
    /\ lastEvent' = Event("createOk", <<>>)
    /\ UNCHANGED <<token, user, route, entries, summary, entriesFrom, summaryFrom,
                   selectedDate, cTypeFilter, paymentFilter, submitting,
                   deleteReqs>>
    /\ UNCHANGED <<scanVars, reportVars,
                   loginVars>>

\* handleCreateEntry's catch, response 401; finally setSubmitting(false)
CreateUnauthorized(r) ==
    /\ r \in createReqs
    /\ createReqs' = createReqs \ {r}
    /\ HandleUnauthorized
    /\ submitting' = IF route = "cash" THEN FALSE ELSE submitting
    /\ lastEvent' = Event("create401", <<>>)
    /\ UNCHANGED <<issued, cError, form, deleteReqs>>
    /\ UNCHANGED <<dashVars, scanVars, reportVars,
                   loginVars>>

\* handleCreateEntry's catch, any other failure; finally setSubmitting(false)
CreateFail(r, message) ==
    /\ r \in createReqs
    /\ createReqs' = createReqs \ {r}
    /\ IF route = "cash"
       THEN /\ cError' = OrElse(ExtractApiMessage(message), CreateFallback)
            /\ submitting' = FALSE
       ELSE UNCHANGED <<cError, submitting>>
    /\ lastEvent' = Other
    /\ UNCHANGED <<token, user, route, issued, form, deleteReqs>>
    /\ UNCHANGED <<dashVars, scanVars, reportVars,
                   loginVars>>

\* the "Excluir" button of a listed entry (the list is rendered only while
\* no dashboard load is pending): handleDeleteEntry up to its await
ClickDelete(i) ==
    /\ CanAct
    /\ issued < MaxCashReq
    /\ ~loadingDashboard
    /\ i \in DOMAIN entries
    /\ cError' = <<>>
    /\ issued' = issued + 1
    /\ deleteReqs' = deleteReqs \cup
          {[id |-> issued + 1, entry |-> entries[i].id, snap |-> CashSnap,
            auth |-> AuthHeader(token), tok |-> token]}
    /\ lastEvent' = Other
    /\ UNCHANGED <<token, user, route, entries, summary, entriesFrom, summaryFrom,
                   selectedDate, cTypeFilter, paymentFilter, loadingDashboard,
                   dashReqs, submitting, form, createReqs>>
    /\ UNCHANGED <<scanVars, reportVars,
                   loginVars>>

\* handleDeleteEntry after its await, response 2xx: await loadDashboard()
DeleteOk(r) ==
    /\ r \in deleteReqs
    /\ deleteReqs' = deleteReqs \ {r}
    /\ LoadDashboardStart(r.snap, "none")
    /\ lastEvent' = Event("deleteOk", <<>>)
    /\ UNCHANGED <<token, user, route, entries, summary, entriesFrom, summaryFrom,
                   selectedDate, cTypeFilter, paymentFilter, submitting, form,
                   createReqs>>
    /\ UNCHANGED <<scanVars, reportVars,
                   loginVars>>

\* handleDeleteEntry's catch, response 401
DeleteUnauthorized(r) ==
    /\ r \in deleteReqs
    /\ deleteReqs' = deleteReqs \ {r}
    /\ HandleUnauthorized
    /\ lastEvent' = Event("delete401", <<>>)
    /\ UNCHANGED <<issued, submitting, cError, form, createReqs>>
    /\ UNCHANGED <<dashVars, scanVars, reportVars,
                   loginVars>>

DeleteFailReloads(r) ==
    /\ r \in deleteReqs
    /\ deleteReqs' = deleteReqs \ {r}
    /\ LoadDashboardStart(r.snap, "none")
    /\ lastEvent' = Event("deleteFail", <<>>)
    /\ UNCHANGED <<token, user, route, entries, summary, entriesFrom, summaryFrom,
                   selectedDate, cTypeFilter, paymentFilter, submitting, form,
                   createReqs>>
    /\ UNCHANGED <<scanVars, reportVars,
                   loginVars>>

\* handleDeleteEntry's catch, any other failure
DeleteFail(r) ==
    /\ r \in deleteReqs
    /\ deleteReqs' = deleteReqs \ {r}
    /\ cError' = IF route = "cash" THEN DeleteFallback ELSE cError
    /\ lastEvent' = Event("deleteFail", <<>>)
    /\ UNCHANGED <<token, user, route, issued, submitting, form, createReqs>>
    /\ UNCHANGED <<dashVars, scanVars, reportVars,
                   loginVars>>

\* handleLogout of either view: logout(); navigate('/login'). Leaving the
\* route unmounts the view.
ClickLogout ==
    /\ route \in {"cash", "reports"}
    /\ HandleUnauthorized
    /\ timers' = ClearedTimers(timers)
    /\ lastEvent' = Event("logout", <<>>)
    /\ UNCHANGED <<issued, items, loading, rError, filters, reportReqs, changes,
                   firedSinceChange, lastTimerParams, itemsFrom>>
    /\ UNCHANGED <<cashVars, loginVars>>

InitReports ==
    /\ items = <<>>
    /\ loading = TRUE
    /\ rError = <<>>
    /\ filters = DefaultFilters
    /\ reportReqs = {}
    /\ changes = 0
    /\ firedSinceChange = 0
    /\ lastTimerParams = None
    /\ itemsFrom = 0
    /\ timers = IF route = "reports"
                THEN {[snap |-> DefaultFilters, due |-> DebounceMs]}
                ELSE {}

\* ------------------------------------------------- receipt digitization
\* an optional field of a response: absent (undefined), or one value
Absent == <<>>
Some(v) == <<v>>
\* opt ?? fallback
Coalesce(opt, fallback) == IF opt # Absent THEN opt[1] ELSE fallback

StartsWith(s, prefix) ==
    /\ Len(s) >= Len(prefix)
    /\ SubSeq(s, 1, Len(prefix)) = prefix

\* String.prototype.toLowerCase, one name part at a time
LowerPart(part) ==
    CASE part = "HEIC" -> "heic"
      [] part = "JPG" -> "jpg"
      [] OTHER -> part
ToLowerCase(name) == [i \in 1..Len(name) |-> LowerPart(name[i])]

MatchesThreeLetterExtension(name) ==
    /\ Len(name) >= 2
    /\ name[Len(name) - 1] = "."
    /\ name[Len(name)] \in {"png", "jpg", "bmp", "gif"}
\* /\.(png|jpe?g|webp|bmp|gif|heic|heif)$/ on a name split at its dots
MatchesImageExtension(name) ==
    /\ Len(name) >= 2
    /\ name[Len(name) - 1] = "."
    /\ \/ name[Len(name)] = "png"
       \/ name[Len(name)] \in {"jpg", "jpeg"}
       \/ name[Len(name)] \in {"webp", "bmp", "gif", "heic", "heif"}

\* isLikelyImageFile
IsLikelyImageFile(file) ==
    IF StartsWith(file.type, <<"image/">>) THEN TRUE
    ELSE MatchesImageExtension(ToLowerCase(file.name))

NoFile == [type |-> <<>>, name |-> <<>>]
\* the value of a file input that holds a file
Chosen == "C:/fakepath/file"
NoPayload == [prefix |-> <<>>, length |-> 0]
JpegPayload(n) == [prefix |-> <<"data:image/", "jpeg;base64,">>, length |-> n]
\* canvas.toDataURL of a canvas it cannot encode
EmptyPayload == [prefix |-> <<"data:", ",">>, length |-> 6]

NoResult ==
    [type |-> Absent, paymentMethod |-> Absent, amount |-> Absent,
     description |-> Absent, category |-> Absent, entryDate |-> Absent,
     confidence |-> Absent]

InvalidFile == <<"Arquivo invalido. Envie uma imagem.">>
TooLarge ==
    <<"Imagem muito grande. Tire a foto mais de perto ou com menor resolucao.">>
ScanFallback ==
    <<"Falha ao ler comprovante. Tente novamente com uma foto mais nitida.">>

ConfidenceTruncated(parsed) == Coalesce(parsed.confidence, 0) \div 10
\* Math.round((confidence ?? 0) * 100), the confidence in thousandths
ConfidencePercent(parsed) == (Coalesce(parsed.confidence, 0) + 5) \div 10

NoInfo == <<>>
ScanInfo(parsed) ==
    <<"Leitura concluida", ConfidencePercent(parsed),
      "% de confianca. Confira os campos antes de salvar.">>

\* the trigger button is disabled={scanningReceipt}
TriggerAlwaysEnabled == TRUE
TriggerEnabled == ~scanningReceipt

AnyPrefixAccepted(payload) == TRUE
\* base64Image.startsWith("data:image/")
HasImagePrefix(payload) == StartsWith(payload.prefix, <<"data:image/">>)

\* base64Image.length > 9_500_000
TooLongInclusive(payload) == payload.length >= MaxPayloadChars
TooLong(payload) == payload.length > MaxPayloadChars

ScanNotReset == UNCHANGED <<scanningReceipt, inputValue>>
\* the `finally` of handleScanReceiptFile: setScanningReceipt(false) and
\* the reset of the file input, which exists only while the view is mounted
ScanFinally ==
    IF route = "cash"
    THEN scanningReceipt' = FALSE /\ inputValue' = ""
    ELSE UNCHANGED <<scanningReceipt, inputValue>>

\* the trigger button opens the file dialog and the input's onChange hands
\* the chosen file to handleScanReceiptFile, which runs up to its first
\* await: setError(""); setOcrInfo(""); setScanningReceipt(true); validate
ScanStart(file) ==
    /\ CanAct
    /\ TriggerEnabled
    /\ issued < MaxCashReq
    /\ ocrInfo' = NoInfo
    /\ IF ~IsLikelyImageFile(file)
       THEN /\ cError' = InvalidFile
            /\ ScanFinally
            /\ scans' = scans
            /\ lastEvent' = Event("scanInvalid", file)
       ELSE /\ cError' = <<>>
            /\ scanningReceipt' = TRUE
            /\ inputValue' = Chosen
            /\ scans' = scans \cup
                  {[pc |-> "resizing", file |-> file, payload |-> NoPayload,
                    id |-> 0, auth |-> NoHeader, tok |-> None,
                    draft |-> form]}
            /\ lastEvent' = Event("scanStart", file)
    /\ UNCHANGED <<token, user, route, issued, dashVars, submitting, form,
                   createReqs, deleteReqs, reportVars,
                   loginVars>>

\* fileToOptimizedDataUrl resolves with `payload`; the prefix and size
\* checks; api.post("/cash-entries/scan-receipt", {base64Image, language}).
\* The file is not read again after the resize.
ScanResized(s, payload) ==
    /\ s \in scans
    /\ s.pc = "resizing"
    /\ IF ~HasImagePrefix(payload)
       THEN /\ cError' = IF route = "cash" THEN InvalidFile ELSE cError
            /\ ScanFinally
            /\ scans' = scans \ {s}
            /\ lastEvent' = Event("scanBadPrefix", payload)
            /\ UNCHANGED issued
       ELSE IF TooLong(payload)
       THEN /\ cError' = IF route = "cash" THEN TooLarge ELSE cError
            /\ ScanFinally
            /\ scans' = scans \ {s}
            /\ lastEvent' = Event("scanTooLarge", payload)
            /\ UNCHANGED issued
       ELSE /\ issued' = issued + 1
            /\ scans' = (scans \ {s}) \cup
                  {[s EXCEPT !.pc = "uploading", !.file = NoFile,
                             !.payload = payload, !.id = issued + 1,
                             !.auth = AuthHeader(token), !.tok = token]}
            /\ lastEvent' = Event("scanUpload", payload)
            /\ UNCHANGED <<cError, scanningReceipt, inputValue>>
    /\ UNCHANGED <<token, user, route, dashVars, submitting, form, createReqs,
                   deleteReqs, ocrInfo, reportVars,
                   loginVars>>

\* fileToOptimizedDataUrl rejects (the file cannot be read or decoded, or
\* the canvas has no 2d context): catch, with an error that is not the
\* HTTP client's
ScanDecodeFail(s) ==
    /\ s \in scans
    /\ s.pc = "resizing"
    /\ cError' = IF route = "cash" THEN OrElse(Undefined, ScanFallback) ELSE cError
    /\ ScanFinally
    /\ scans' = scans \ {s}
    /\ lastEvent' = Event("scanDecodeFail", <<>>)
    /\ UNCHANGED <<token, user, route, issued, dashVars, submitting, form,
                   createReqs, deleteReqs, ocrInfo, reportVars,
                   loginVars>>

\* a value that `||` keeps: neither undefined, nor 0, nor ""
Truthy(opt) == opt # Absent /\ opt[1] # 0
MergeDraftByTruth(prev, parsed) ==
    [type |-> Coalesce(parsed.type, prev.type),
     paymentMethod |-> Coalesce(parsed.paymentMethod, prev.paymentMethod),
     amount |-> IF Truthy(parsed.amount) THEN parsed.amount[1] ELSE prev.amount,
     description |-> Coalesce(parsed.description, prev.description),
     category |-> Coalesce(parsed.category, prev.category),
     entryDate |-> Coalesce(parsed.entryDate, prev.entryDate)]
MergeDraftKeepsTyped(prev, parsed) ==
    [type |-> Coalesce(parsed.type, prev.type),
     paymentMethod |-> Coalesce(parsed.paymentMethod, prev.paymentMethod),
     amount |-> Coalesce(parsed.amount, prev.amount),
     description |-> IF prev.description # <<>> THEN prev.description
                     ELSE Coalesce(parsed.description, prev.description),
     category |-> Coalesce(parsed.category, prev.category),
     entryDate |-> Coalesce(parsed.entryDate, prev.entryDate)]
\* the setForm updater of handleScanReceiptFile
MergeDraft(prev, parsed) ==
    [type |-> Coalesce(parsed.type, prev.type),
     paymentMethod |-> Coalesce(parsed.paymentMethod, prev.paymentMethod),
     amount |-> Coalesce(parsed.amount, prev.amount),
     description |-> Coalesce(parsed.description, prev.description),
     category |-> Coalesce(parsed.category, prev.category),
     entryDate |-> Coalesce(parsed.entryDate, prev.entryDate)]

NeverHasEntryDate(parsed) == FALSE
\* if (parsed.entryDate): defined and not the empty string
HasEntryDate(parsed) == parsed.entryDate # Absent /\ parsed.entryDate[1] # ""

DraftAtStart(s) == s.draft
\* the `prev` React hands to the functional updater of setForm: the draft as
\* it is when the update is applied, not the `form` the handler's closure
\* captured when the scan started (kept in the scan as `draft`)
PrevDraft(s) == form

\* the upload answers 200 with `parsed`: merge, select the entry date (the
\* dashboard effect follows), report the confidence; finally
ScanOk(s, parsed) ==
    /\ s \in scans
    /\ s.pc = "uploading"
    /\ scans' = scans \ {s}
    /\ ScanFinally
    /\ IF route = "cash"
       THEN /\ form' = MergeDraft(PrevDraft(s), parsed)
            /\ ocrInfo' = ScanInfo(parsed)
            /\ IF HasEntryDate(parsed)
               THEN /\ selectedDate' = parsed.entryDate[1]
                    /\ DashboardEffect(CashSnap,
                                       [CashSnap EXCEPT !.date = parsed.entryDate[1]])
               ELSE UNCHANGED <<selectedDate, issued, dashReqs, loadingDashboard,
                                cError>>
       ELSE UNCHANGED <<form, ocrInfo, selectedDate, issued, dashReqs,
                        loadingDashboard, cError>>
    /\ lastEvent' = Event("scanOk", parsed @@ [draft |-> s.draft])
    /\ UNCHANGED <<token, user, route, entries, summary, entriesFrom, summaryFrom,
                   cTypeFilter, paymentFilter, submitting, createReqs, deleteReqs,
                   reportVars,
                   loginVars>>

\* the upload fails with `status` (401 included): catch: setError(
\* extractApiMessage(err) ?? fallback); finally
ScanUploadFail(s, status, message) ==
    /\ s \in scans
    /\ s.pc = "uploading"
    /\ scans' = scans \ {s}
    /\ cError' = IF route = "cash"
                 THEN OrElse(ExtractApiMessage(message), ScanFallback)
                 ELSE cError
    /\ ScanFinally
    /\ lastEvent' = Event(IF status = 401 THEN "scan401" ELSE "scanFail", <<>>)
    /\ UNCHANGED <<token, user, route, issued, dashVars, submitting, form,
                   createReqs, deleteReqs, ocrInfo, reportVars,
                   loginVars>>

InitCash ==
    /\ entries = <<>>
    /\ summary = NoSummary
    /\ selectedDate = Today
    /\ cTypeFilter = "ALL"
    /\ paymentFilter = "ALL"
    /\ loadingDashboard = TRUE
    /\ submitting = FALSE
    /\ cError = <<>>
    /\ form = InitialForm
    /\ createReqs = {}
    /\ deleteReqs = {}
    /\ entriesFrom = 0
    /\ summaryFrom = 0
    /\ scanningReceipt = FALSE
    /\ ocrInfo = NoInfo
    /\ inputValue = ""
    /\ scans = {}

\* the first request of the live-ledger view: the effect's loadDashboard()
\* on mount
MountDashboard(tok) ==
    [id |-> 1, snap |-> [date |-> Today, type |-> "ALL", payment |-> "ALL"],
     listParams |-> DashListParams([date |-> Today, type |-> "ALL", payment |-> "ALL"]),
     sumParams |-> DashSummaryParams([date |-> Today, type |-> "ALL", payment |-> "ALL"]),
     listDone |-> FALSE, listData |-> <<>>, sumDone |-> FALSE, sumData |-> NoSummary,
     auth |-> AuthHeader(tok), tok |-> tok, cont |-> "none", posted |-> <<>>]

\* ============================================================== LoginPage
InitialLoginView ==
    [mode |-> "login", name |-> <<>>, email |-> <<>>, password |-> <<>>,
     loading |-> FALSE, message |-> <<>>, error |-> <<>>]

FieldsRequired == <<"Preencha os campos obrigatorios.">>
Registered ==
    <<"Cadastro realizado. Agora faca login para acessar as credenciais.">>
AuthFallback == <<"Erro na autenticacao.">>

\* the "Login" and "Cadastro" buttons: setMode; setError(''); setMessage('')
SetMode(mode) ==
    /\ route = "login"
    /\ loginView.mode # mode
    /\ loginView' = [loginView EXCEPT !.mode = mode, !.error = <<>>,
                                      !.message = <<>>]
    /\ lastEvent' = Other
    /\ UNCHANGED <<token, user, route, issued, authReqs>>
    /\ UNCHANGED <<reportVars, cashVars>>

\* the name, email and password inputs
EditLogin(field, v) ==
    /\ route = "login"
    /\ loginView[field] # v
    /\ loginView' = [loginView EXCEPT ![field] = v]
    /\ lastEvent' = Other
    /\ UNCHANGED <<token, user, route, issued, authReqs>>
    /\ UNCHANGED <<reportVars, cashVars>>

\* handleSubmit up to its await; the submit button is disabled={loading}
SubmitAuth ==
    /\ route = "login"
    /\ ~loginView.loading
    /\ issued < MaxSessionReq
    /\ IF \/ Trim(loginView.email) = <<>>
          \/ Trim(loginView.password) = <<>>
          \/ (loginView.mode = "register" /\ Trim(loginView.name) = <<>>)
       THEN /\ loginView' = [loginView EXCEPT !.error = FieldsRequired,
                                              !.message = <<>>]
            /\ UNCHANGED <<issued, authReqs>>
       ELSE /\ loginView' = [loginView EXCEPT !.error = <<>>, !.message = <<>>,
                                              !.loading = TRUE]
            /\ issued' = issued + 1
            /\ authReqs' = authReqs \cup
                  {[id |-> issued + 1, kind |-> loginView.mode,
                    auth |-> AuthHeader(token), tok |-> token]}
    /\ lastEvent' = Event("authSubmit", <<>>)
    /\ UNCHANGED <<token, user, route>>
    /\ UNCHANGED <<reportVars, cashVars>>

\* POST /register answers 2xx: auth.ts register returns the user and stores
\* nothing; setMessage; setMode('login'); setPassword(''); finally
RegisterOk(r) ==
    /\ r \in authReqs
    /\ r.kind = "register"
    /\ authReqs' = authReqs \ {r}
    /\ loginView' = IF route = "login"
                    THEN [loginView EXCEPT !.message = Registered,
                                           !.mode = "login", !.password = <<>>,
                                           !.loading = FALSE]
                    ELSE loginView
    /\ lastEvent' = Event("registerOk", <<>>)
    /\ UNCHANGED <<token, user, route, issued>>
    /\ UNCHANGED <<reportVars, cashVars>>

\* the live-ledger view mounts: its state is the initial one and its effect
\* calls loadDashboard(); requests of an earlier mount stay in flight
MountCashPage ==
    /\ entries' = <<>>
    /\ summary' = NoSummary
    /\ selectedDate' = Today
    /\ cTypeFilter' = "ALL"
    /\ paymentFilter' = "ALL"
    /\ loadingDashboard' = TRUE
    /\ submitting' = FALSE
    /\ cError' = <<>>
    /\ form' = InitialForm
    /\ entriesFrom' = 0
    /\ summaryFrom' = 0
    /\ scanningReceipt' = FALSE
    /\ ocrInfo' = NoInfo
    /\ inputValue' = ""
    /\ issued' = issued + 1
    /\ dashReqs' = dashReqs \cup {[MountDashboard(token') EXCEPT !.id = issued + 1]}
    /\ UNCHANGED <<createReqs, deleteReqs, scans>>

\* POST /login answers 200 with {accessToken, user}: auth.ts login calls
\* setSession; navigate('/cash', {replace: true}) unmounts the login page
LoginOk(r, accessToken, u) ==
    /\ r \in authReqs
    /\ r.kind = "login"
    /\ authReqs' = authReqs \ {r}
    /\ SetSession(accessToken, u)
    /\ route' = "cash"
    /\ MountCashPage
    /\ loginView' = InitialLoginView
    /\ lastEvent' = Event("loginOk", [accessToken |-> accessToken, user |-> u])
    /\ UNCHANGED reportVars

\* POST /login or POST /register fails: setError(...); finally
AuthFail(r, message) ==
    /\ r \in authReqs
    /\ authReqs' = authReqs \ {r}
    /\ loginView' =
          IF route = "login"
          THEN [loginView EXCEPT
                  !.error = IF IsArray(message) THEN Join(message.parts)
                            ELSE IF message.kind = "string" THEN message.text
                            ELSE AuthFallback,
                  !.loading = FALSE]
          ELSE loginView
    /\ lastEvent' = Event(IF r.kind = "login" THEN "loginFail" ELSE "registerFail",
                          <<>>)
    /\ UNCHANGED <<token, user, route, issued>>
    /\ UNCHANGED <<reportVars, cashVars>>

\* a render of a protected view: const currentUser = getCurrentUser()
RenderProtected ==
    /\ route \in {"cash", "reports"}
    /\ user' = AfterGetCurrentUser(user)
    /\ lastEvent' = Event("render", <<>>)
    /\ UNCHANGED <<token, route, issued>>
    /\ UNCHANGED <<reportVars, cashVars, loginVars>>

\* the state after a protected view has mounted and run its effects
InitView(view) ==
    /\ route = view
    /\ token \in Tokens
    /\ user \in Users
    /\ lastEvent = Other
    /\ InitReports
    /\ InitCash
    /\ issued = IF route = "cash" THEN 1 ELSE 0
    /\ dashReqs = IF route = "cash" THEN {MountDashboard(token)} ELSE {}
    /\ loginView = InitialLoginView
    /\ authReqs = {}

Init == \E view \in {"reports", "cash"} : InitView(view)

\* ------------------------------------------------------------ input sets
CameraPhoto == [type |-> <<>>, name |-> <<"IMG_1", ".", "HEIC">>]
JpegFile == [type |-> <<"image/", "jpeg">>, name |-> <<"foto", ".", "jpeg">>]
UntypedScan == [type |-> <<"image/", "png">>, name |-> <<"scan">>]
PdfFile == [type |-> <<"application/", "pdf">>, name |-> <<"nota", ".", "pdf">>]
RenamedFile == [type |-> <<>>, name |-> <<"nota", ".", "png", ".", "txt">>]
BareName == [type |-> <<>>, name |-> <<"png">>]
Files == {CameraPhoto, JpegFile, UntypedScan, PdfFile, RenamedFile, BareName}

Payloads ==
    {JpegPayload(40000), JpegPayload(MaxPayloadChars),
     JpegPayload(MaxPayloadChars + 1), JpegPayload(9600000), EmptyPayload}

Results ==
    [type : {Absent, Some("OUT")},
     paymentMethod : {Absent, Some("CASH")},
     amount : {Absent, Some(0), Some(12050)},
     description : {Absent, Some(<<>>), Some(<<"a">>)},
     category : {Absent, Some(<<"c">>)},
     entryDate : {Absent, Some("2024-03-02")},
     confidence : {Some(730)}]

FewResults ==
    {[NoResult EXCEPT !.confidence = Some(730)],
     [NoResult EXCEPT !.amount = Some(12050), !.entryDate = Some("2024-03-02")]}

FewMessages == {NoMessage, ArrayMessage(<<<<"a">>, <<"b">>>>)}
Statuses == {401, 500}
OneList == {<<OutEntry, InEntry>>}
OneSummary(date) ==
    {[present |-> TRUE, date |-> date, totalOut |-> 4590, countOut |-> 1]}

\* -------------------------------------------------------- specifications
\* the report view, every filter control
NextReport ==
    \/ \E field \in DOMAIN DefaultFilters :
         \E value \in FieldInputs(field) : ChangeFilter(field, value)
    \/ ClearFilters
    \/ Tick
    \/ TimerFire
    \/ RefreshReport
    \/ \E r \in reportReqs, data \in EntryLists : ReportOk(r, data)
    \/ \E r \in reportReqs : ReportUnauthorized(r)
    \/ \E r \in reportReqs, message \in ApiMessages : ReportFail(r, message)
    \/ ClickLogout

ReportSpec == InitView("reports") /\ [][NextReport]_vars

\* the receipt workflow of the live-ledger view, with every file, payload
\* and Recognition Result, while the dashboard requests stay unanswered
NextScan ==
    \/ \E file \in Files : ScanStart(file)
    \/ \E s \in scans, payload \in Payloads : ScanResized(s, payload)
    \/ \E s \in scans : ScanDecodeFail(s)
    \/ \E s \in scans, parsed \in Results : ScanOk(s, parsed)
    \/ \E s \in scans, status \in Statuses, message \in ApiMessages :
         ScanUploadFail(s, status, message)
    \/ \E field \in {"description", "amount", "type"} :
         \E v \in FormInputs(field) : EditForm(field, v)
    \/ ClickLogout

ScanSpec == InitView("cash") /\ [][NextScan]_vars

\* both views, every kind of request and each of its outcomes
Next ==
    \/ \E value \in {"ALL", "IN"} : ChangeFilter("typeFilter", value)
    \/ Tick
    \/ TimerFire
    \/ \E r \in reportReqs, data \in OneList : ReportOk(r, data)
    \/ \E r \in reportReqs : ReportUnauthorized(r)
    \/ \E r \in reportReqs, message \in FewMessages : ReportFail(r, message)
    \/ \E r \in dashReqs, list \in OneList : DashListOk(r, list)
    \/ \E r \in dashReqs :
         \E sum \in OneSummary(r.snap.date) : DashSummaryOk(r, sum)
    \/ \E r \in dashReqs, part \in Parts : DashUnauthorized(r, part)
    \/ \E r \in dashReqs, part \in Parts : DashFail(r, part)
    \/ RefreshDashboard
    \/ \E field \in {"description", "amount"} :
         \E v \in FormInputs(field) : EditForm(field, v)
    \/ SubmitCreate
    \/ \E r \in createReqs : CreateOk(r)
    \/ \E r \in createReqs : CreateUnauthorized(r)
    \/ \E r \in createReqs, message \in FewMessages : CreateFail(r, message)
    \/ \E i \in 1..2 : ClickDelete(i)
    \/ \E r \in deleteReqs : DeleteOk(r)
    \/ \E r \in deleteReqs : DeleteUnauthorized(r)
    \/ \E r \in deleteReqs : DeleteFail(r)
    \/ \E file \in {CameraPhoto} : ScanStart(file)
    \/ \E s \in scans, payload \in {JpegPayload(40000)} : ScanResized(s, payload)
    \/ \E s \in scans, parsed \in FewResults : ScanOk(s, parsed)
    \/ \E s \in scans, status \in Statuses, message \in {NoMessage} :
         ScanUploadFail(s, status, message)
    \/ ClickLogout

Spec == Init /\ [][Next]_vars

\* the live-ledger view's dashboard: every filter control, reload and answer
NextDash ==
    \/ \E v \in CashDates : ChangeSelectedDate(v)
    \/ \E v \in CashTypeFilters : ChangeTypeFilter(v)
    \/ \E v \in PaymentFilters : ChangePaymentFilter(v)
    \/ ClickToday
    \/ RefreshDashboard
    \/ \E r \in dashReqs, list \in EntryLists : DashListOk(r, list)
    \/ \E r \in dashReqs :
         \E sum \in SummariesFor(r.snap.date) : DashSummaryOk(r, sum)
    \/ \E r \in dashReqs, part \in Parts : DashUnauthorized(r, part)
    \/ \E r \in dashReqs, part \in Parts : DashFail(r, part)
    \/ ClickLogout

DashSpec == InitView("cash") /\ [][NextDash]_vars

\* Recognition Results of every confidence: 0.73, 0.456, 0.01, 0.004, none
ConfidenceResults ==
    {[NoResult EXCEPT !.amount = Some(12050), !.confidence = Some(730)],
     [NoResult EXCEPT !.confidence = Some(456)],
     [NoResult EXCEPT !.confidence = Some(10)],
     [NoResult EXCEPT !.amount = Some(12050), !.confidence = Some(4)],
     NoResult}

\* the entry form: a scan fills the draft, the user edits and submits it
NextDraft ==
    \/ \E file \in {JpegFile} : ScanStart(file)
    \/ \E s \in scans, payload \in {JpegPayload(40000)} : ScanResized(s, payload)
    \/ \E s \in scans, parsed \in ConfidenceResults : ScanOk(s, parsed)
    \/ \E field \in {"description", "amount"} :
         \E v \in FormInputs(field) : EditForm(field, v)
    \/ SubmitCreate
    \/ \E r \in createReqs : CreateOk(r)
    \/ \E r \in createReqs, message \in FewMessages : CreateFail(r, message)
    \/ ClickLogout

DraftSpec == InitView("cash") /\ [][NextDraft]_vars

\* ---------------------------------------------------------- image resize
\* fileToOptimizedDataUrl: const maxDimension = 1600
MaxDimension == 1600

Larger(a, b) == IF a >= b THEN a ELSE b

\* Math.round of the non-negative quotient num / den
Round(num, den) == (2 * num + den) \div (2 * den)

ScaleToFit(image) ==
    [num |-> MaxDimension, den |-> Larger(image.width, image.height)]
\* Math.min(1, maxDimension / Math.max(image.width, image.height)), as the
\* quotient num / den
Scale(image) ==
    IF Larger(image.width, image.height) <= MaxDimension
    THEN [num |-> 1, den |-> 1]
    ELSE [num |-> MaxDimension, den |-> Larger(image.width, image.height)]

\* Math.max(1, Math.round(image.width * scale))
CanvasWidth(image) ==
    Larger(1, Round(image.width * Scale(image).num, Scale(image).den))
\* Math.max(1, Math.round(image.height * scale))
CanvasHeight(image) ==
    Larger(1, Round(image.height * Scale(image).num, Scale(image).den))

\* canvas.toDataURL("image/jpeg", 0.82) of the canvas the decoded `image`
\* was drawn on, a data URL of `n` characters
CanvasPayload(image, n) ==
    [prefix |-> <<"data:image/", "jpeg;base64,">>, length |-> n, image |-> image,
     width |-> CanvasWidth(image), height |-> CanvasHeight(image)]

ImageSides == {1, 2, 3, 1599, 1600, 1601, 3200, 4800, 500000}
Images == [width : ImageSides, height : ImageSides]

\* the receipt workflow with decoded images of every size
NextResize ==
    \/ \E file \in {CameraPhoto} : ScanStart(file)
    \/ \E s \in scans, image \in Images, n \in {40000, MaxPayloadChars + 1} :
         ScanResized(s, CanvasPayload(image, n))
    \/ \E s \in scans : ScanDecodeFail(s)
    \/ \E s \in scans, parsed \in FewResults : ScanOk(s, parsed)
    \/ \E s \in scans, status \in Statuses, message \in {NoMessage} :
         ScanUploadFail(s, status, message)

ResizeSpec == InitView("cash") /\ [][NextResize]_vars

\* -------------------------------------------------------- ledger service
\* The service behind /cash-entries and /cash-summary/daily, as the client
\* relies on it: a POST that was answered has stored its entry, a list is
\* the stored entries that match the query, a summary folds the entries of
\* its date.
Stored(body) ==
    [id |-> "new", type |-> body.type, amount |-> body.amount,
     description |-> body.description, paymentMethod |-> body.paymentMethod,
     date |-> body.entryDate]

OlderEntry ==
    [id |-> "e9", type |-> "OUT", amount |-> 1000, description |-> <<"x">>,
     paymentMethod |-> "PIX", date |-> Today]
\* what other sessions have stored
OtherLedgers == {<<>>, <<OlderEntry>>}

\* the entries the service holds when it serves dashboard load `r`
LedgerSeenBy(r, others) ==
    others \o [i \in 1..Len(r.posted) |-> Stored(r.posted[i])]

Matches(e, params) ==
    /\ e.date = params.date
    /\ "type" \in DOMAIN params => e.type = params.type
    /\ "paymentMethod" \in DOMAIN params => e.paymentMethod = params.paymentMethod

ServiceList(ledger, params) ==
    SelectSeq(ledger, LAMBDA e : Matches(e, params))

RECURSIVE SumOut(_)
SumOut(ledger) ==
    IF ledger = <<>> THEN 0
    ELSE (IF Head(ledger).type = "OUT" THEN Head(ledger).amount ELSE 0)
         + SumOut(Tail(ledger))

ServiceSummary(ledger, date) ==
    LET ofDate == SelectSeq(ledger, LAMBDA e : e.date = date)
    IN  [present |-> TRUE, date |-> date, totalOut |-> SumOut(ofDate),
         countOut |-> Len(SelectSeq(ofDate, LAMBDA e : e.type = "OUT"))]

\* the entry form and the dashboard against the service: the user edits
\* the draft, filters by type, submits; the service answers
NextCreate ==
    \/ \E v \in {<<>>, <<" ">>, <<"f">>} : EditForm("description", v)
    \/ \E v \in {0, -100, 4590, Infinity} : EditForm("amount", v)
    \/ \E v \in {"IN", "OUT"} : EditForm("type", v)
    \/ \E v \in {Today, "2024-03-02"} : EditForm("entryDate", v)
    \/ \E v \in CashTypeFilters : ChangeTypeFilter(v)
    \/ SubmitCreate
    \/ \E r \in createReqs : CreateOk(r)
    \/ \E r \in createReqs, message \in FewMessages : CreateFail(r, message)
    \/ \E r \in dashReqs, others \in OtherLedgers :
         DashListOk(r, ServiceList(LedgerSeenBy(r, others), r.listParams))
    \/ \E r \in dashReqs, others \in OtherLedgers :
         DashSummaryOk(r, ServiceSummary(LedgerSeenBy(r, others), r.sumParams.date))

CreateSpec == InitView("cash") /\ [][NextCreate]_vars

\* ------------------------------------------------------------ CSV export
\* Text of the exported document: a sequence of tokens, where each of the
\* characters the export treats specially is a token of its own.
Quote == "\""
Semicolon == ";"
Comma == ","
Newline == "\n"
ByteOrderMark == "U+FEFF"

\* timestamps the server returns in createdAt, and a value that is no date
MorningStamp == <<"2024-03-01T13:00:00.000Z">>
NotADate == <<"n/a">>

\* formatDateTimeBR: date.toLocaleString('pt-BR') in the browser's time zone
\* (here UTC-3), or the value itself when it is no date. Browsers separate
\* date and time by ", " or by " " depending on their locale data.
FormatDateTimeBR(value, withComma) ==
    IF value = MorningStamp
    THEN IF withComma THEN <<"01/03/2024", Comma, " ", "10:00:00">>
                      ELSE <<"01/03/2024", " ", "10:00:00">>
    ELSE value

\* item.amount.toFixed(2).replace('.', ','), the amount in cents
AmountCell(amount) ==
    <<ToString(amount \div 100), Comma>>
    \o (IF amount % 100 < 10 THEN <<"0">> ELSE <<>>)
    \o <<ToString(amount % 100)>>

\* text.replaceAll('"', '""')
RECURSIVE DoubleQuotes(_)
DoubleQuotes(text) ==
    IF text = <<>> THEN <<>>
    ELSE (IF Head(text) = Quote THEN <<Quote, Quote>> ELSE <<Head(text)>>)
         \o DoubleQuotes(Tail(text))

EscapeCsvWithoutDoubling(text) ==
    IF \A i \in DOMAIN text : text[i] \notin {Quote, Comma, Semicolon, Newline}
    THEN text
    ELSE <<Quote>> \o text \o <<Quote>>
EscapeCsvOfQuotesOnly(text) ==
    IF \A i \in DOMAIN text : text[i] # Quote
    THEN text
    ELSE <<Quote>> \o DoubleQuotes(text) \o <<Quote>>
\* escapeCsv: /[",;\n]/.test(text) ? `"${text.replaceAll('"', '""')}"` : text
EscapeCsv(text) ==
    IF \A i \in DOMAIN text : text[i] \notin {Quote, Comma, Semicolon, Newline}
    THEN text
    ELSE <<Quote>> \o DoubleQuotes(text) \o <<Quote>>

\* Array.prototype.join(separator) over an array of texts
RECURSIVE JoinWith(_, _)
JoinWith(separator, a) ==
    IF a = <<>> THEN <<>>
    ELSE IF Len(a) = 1 THEN a[1]
    ELSE a[1] \o <<separator>> \o JoinWith(separator, Tail(a))

CsvHeader ==
    <<<<"Data/Hora">>, <<"Tipo">>, <<"Categoria">>, <<"Descricao">>,
      <<"Pagamento">>, <<"Valor">>>>

\* one element of `rows` in handleDownloadCsv
CsvRow(item, withComma) ==
    <<FormatDateTimeBR(item.createdAt, withComma),
      IF item.type = "IN" THEN <<"Entrada">> ELSE <<"Saida">>,
      Coalesce(item.category, <<>>),
      item.description,
      Coalesce(item.paymentMethod, <<>>),
      AmountCell(item.amount)>>

\* [header, ...rows]
CsvRows(list, withComma) ==
    <<CsvHeader>> \o [i \in 1..Len(list) |-> CsvRow(list[i], withComma)]

\* '\uFEFF' + rows.map(row => row.map(escapeCsv).join(';')).join('\n')
CsvDocument(list, withComma) ==
    LET rows == CsvRows(list, withComma)
        line(row) == JoinWith(Semicolon, [j \in 1..Len(row) |-> EscapeCsv(row[j])])
    IN  <<ByteOrderMark>> \o JoinWith(Newline, [i \in 1..Len(rows) |-> line(rows[i])])

\* paymentMethodLabel
PaymentMethodLabel(value) ==
    IF value = Some(<<"CASH">>) THEN <<"Dinheiro">>
    ELSE IF value = Some(<<"CARD">>) THEN <<"Cartao">>
    ELSE IF value = Some(<<"PIX">>) THEN <<"PIX">>
    ELSE <<"-">>

\* the Pagamento cell of the entry's row in report-print-table
PrintPaymentCell(item) == PaymentMethodLabel(item.paymentMethod)

\* handleDownloadCsv: builds the document from `items` and hands it to the
\* browser as a download; no state of the view changes
HandleDownloadCsv(withComma) ==
    /\ route = "reports"
    /\ lastEvent' = Event("csv", [rows |-> CsvRows(items, withComma),
                                  doc |-> CsvDocument(items, withComma)])
    /\ UNCHANGED <<token, user, route, issued>>
    /\ UNCHANGED <<reportVars, cashVars, loginVars>>

\* entries with the characters the export treats specially
SemicolonEntry ==
    [id |-> "e1", type |-> "OUT", amount |-> 4590,
     description |-> <<"a", Semicolon, "b">>, category |-> Absent,
     paymentMethod |-> Some(<<"PIX">>), createdAt |-> MorningStamp]
QuotedEntry ==
    [id |-> "e2", type |-> "IN", amount |-> 12050,
     description |-> <<Quote, "x", Quote>>,
     category |-> Some(<<"c", Newline, "d">>),
     paymentMethod |-> Absent, createdAt |-> NotADate]
PlainEntry ==
    [id |-> "e3", type |-> "IN", amount |-> 5,
     description |-> <<"almoco">>, category |-> Some(<<"c">>),
     paymentMethod |-> Some(<<"CASH">>), createdAt |-> MorningStamp]
EmptyTextEntry ==
    [id |-> "e4", type |-> "OUT", amount |-> 100,
     description |-> <<>>, category |-> Some(<<"x", Comma, " ", "y">>),
     paymentMethod |-> Some(<<"CARD">>), createdAt |-> MorningStamp]
CsvEntries == {SemicolonEntry, QuotedEntry, PlainEntry, EmptyTextEntry}

\* responses of GET /cash-entries: up to two of these entries, in any order
CsvLists ==
    {<<>>} \cup {<<e>> : e \in CsvEntries}
           \cup {<<e, f>> : e \in CsvEntries, f \in CsvEntries}

\* the report view: fetch a Result Set and export it
NextCsv ==
    \/ Tick
    \/ TimerFire
    \/ RefreshReport
    \/ \E r \in reportReqs, data \in CsvLists : ReportOk(r, data)
    \/ \E withComma \in BOOLEAN : HandleDownloadCsv(withComma)

CsvSpec == InitView("reports") /\ [][NextCsv]_vars

\* ---------------------------------------------------------- report totals
TotalsStepLastWins(acc, item) ==
    IF item.type = "IN"
    THEN [acc EXCEPT !.totalIn = item.amount]
    ELSE [acc EXCEPT !.totalOut = item.amount]
\* the reducer of `totals`: acc.totalIn += item.amount for an entry of type
\* IN, acc.totalOut += item.amount for any other
TotalsStep(acc, item) ==
    IF item.type = "IN"
    THEN [acc EXCEPT !.totalIn = @ + item.amount]
    ELSE [acc EXCEPT !.totalOut = @ + item.amount]

\* Array.prototype.reduce, left to right
RECURSIVE Reduce(_, _)
Reduce(acc, list) ==
    IF list = <<>> THEN acc
    ELSE Reduce(TotalsStep(acc, Head(list)), Tail(list))

\* useMemo(() => items.reduce(..., {totalIn: 0, totalOut: 0}), [items])
Totals(list) == Reduce([totalIn |-> 0, totalOut |-> 0], list)

NetAdded(totals) == totals.totalIn + totals.totalOut
\* const net = totals.totalIn - totals.totalOut
Net(totals) == totals.totalIn - totals.totalOut

\* the summary cards of the screen: Itens, Entradas, Saidas, Saldo filtrado
SummaryCards ==
    [itens |-> Len(items), entradas |-> Totals(items).totalIn,
     saidas |-> Totals(items).totalOut, saldo |-> Net(Totals(items))]

\* the print-ready report: Registros, report-print-summary and the table foot
PrintReport ==
    [registros |-> Len(items),
     summary |-> [entradas |-> Totals(items).totalIn,
                  saidas |-> Totals(items).totalOut,
                  saldo |-> Net(Totals(items))],
     foot |-> [entradas |-> Totals(items).totalIn,
               saidas |-> Totals(items).totalOut,
               saldo |-> Net(Totals(items))]]

SaleEntry == [id |-> "e1", type |-> "IN", amount |-> 12050]
TipEntry == [id |-> "e3", type |-> "IN", amount |-> 1]
SupplierEntry == [id |-> "e2", type |-> "OUT", amount |-> 4590]
RentEntry == [id |-> "e4", type |-> "OUT", amount |-> 150000]
TotalsEntries == {SaleEntry, TipEntry, SupplierEntry, RentEntry}
\* Result Sets of up to three entries, in every order
TotalsLists ==
    {<<>>} \cup {<<e>> : e \in TotalsEntries}
           \cup {<<e, f>> : e \in TotalsEntries, f \in TotalsEntries}
           \cup {<<e, f, g>> : e \in TotalsEntries, f \in TotalsEntries,
                               g \in TotalsEntries}

\* the report view: Result Sets arrive and replace the displayed one
NextTotals ==
    \/ Tick
    \/ TimerFire
    \/ RefreshReport
    \/ \E r \in reportReqs, data \in TotalsLists : ReportOk(r, data)
    \/ \E r \in reportReqs, message \in FewMessages : ReportFail(r, message)

TotalsSpec == InitView("reports") /\ [][NextTotals]_vars

\* responses of GET /cash-entries that differ in length, content and order
ReplaceLists == {<<>>, <<InEntry>>, <<OutEntry, InEntry>>, <<InEntry, OutEntry>>}

\* both views: Result Sets arrive one after another, between reloads,
\* failures, deletes and the end of the session
NextReplace ==
    \/ \E value \in {"ALL", "IN"} : ChangeFilter("typeFilter", value)
    \/ Tick
    \/ TimerFire
    \/ RefreshReport
    \/ \E r \in reportReqs, data \in ReplaceLists : ReportOk(r, data)
    \/ \E r \in reportReqs, message \in FewMessages : ReportFail(r, message)
    \/ RefreshDashboard
    \/ \E r \in dashReqs, list \in ReplaceLists : DashListOk(r, list)
    \/ \E r \in dashReqs :
         \E sum \in OneSummary(r.snap.date) : DashSummaryOk(r, sum)
    \/ \E r \in dashReqs, part \in Parts : DashFail(r, part)
    \/ \E i \in 1..2 : ClickDelete(i)
    \/ \E r \in deleteReqs : DeleteOk(r)
    \/ \E r \in deleteReqs : DeleteUnauthorized(r)
    \/ \E r \in deleteReqs : DeleteFail(r)
    \/ ClickLogout

ReplaceSpec == Init /\ [][NextReplace]_vars

\* Recognition Results with another day, the selected day, an empty date
\* and no date
DateResults ==
    {[NoResult EXCEPT !.entryDate = Some("2024-03-02")],
     [NoResult EXCEPT !.entryDate = Some(Today)],
     [NoResult EXCEPT !.entryDate = Some("")],
     [NoResult EXCEPT !.amount = Some(12050)]}

\* the live-ledger view: every control and every result that sets a date
NextDate ==
    \/ \E v \in CashDates : ChangeSelectedDate(v)
    \/ ClickToday
    \/ \E v \in {Today, "2024-03-02", "2024-03-03"} : EditForm("entryDate", v)
    \/ \E v \in FormInputs("amount") : EditForm("amount", v)
    \/ \E file \in {JpegFile} : ScanStart(file)
    \/ \E s \in scans, payload \in {JpegPayload(40000)} : ScanResized(s, payload)
    \/ \E s \in scans, parsed \in DateResults : ScanOk(s, parsed)
    \/ \E s \in scans, status \in Statuses, message \in {NoMessage} :
         ScanUploadFail(s, status, message)
    \/ \E r \in dashReqs, list \in OneList : DashListOk(r, list)
    \/ \E r \in dashReqs :
         \E sum \in OneSummary(r.snap.date) : DashSummaryOk(r, sum)

DateSpec == InitView("cash") /\ [][NextDate]_vars

\* the entry form: every field is edited, the draft is submitted, and the
\* POST succeeds, is rejected, or ends the session
NextReset ==
    \/ \E field \in DOMAIN InitialForm :
         \E v \in FormInputs(field) : EditForm(field, v)
    \/ SubmitCreate
    \/ \E r \in createReqs : CreateOk(r)
    \/ \E r \in createReqs : CreateUnauthorized(r)
    \/ \E r \in createReqs, message \in FewMessages : CreateFail(r, message)
    \/ \E r \in dashReqs, list \in OneList : DashListOk(r, list)
    \/ \E r \in dashReqs :
         \E sum \in OneSummary(r.snap.date) : DashSummaryOk(r, sum)

ResetSpec == InitView("cash") /\ [][NextReset]_vars

\* the entry form: the draft is submitted again and again, each POST and
\* each follow-up dashboard load with every outcome
NextSubmit ==
    \/ \E field \in {"description", "amount"} :
         \E v \in FormInputs(field) : EditForm(field, v)
    \/ SubmitCreateWithin(MaxSubmitReq)
    \/ \E r \in createReqs : CreateOk(r)
    \/ \E r \in createReqs : CreateUnauthorized(r)
    \/ \E r \in createReqs, message \in FewMessages : CreateFail(r, message)
    \/ \E r \in dashReqs, list \in OneList : DashListOk(r, list)
    \/ \E r \in dashReqs :
         \E sum \in OneSummary(r.snap.date) : DashSummaryOk(r, sum)
    \/ \E r \in dashReqs, part \in Parts : DashUnauthorized(r, part)
    \/ \E r \in dashReqs, part \in Parts : DashFail(r, part)

SubmitSpec == InitView("cash") /\ [][NextSubmit]_vars

\* the application opened without a session: the login page
InitLogin ==
    /\ route = "login"
    /\ token = None
    /\ user = None
    /\ lastEvent = Other
    /\ InitReports
    /\ InitCash
    /\ issued = 0
    /\ dashReqs = {}
    /\ loginView = InitialLoginView
    /\ authReqs = {}

\* what POST /login returns: a token, possibly the empty string, and a user
LoginTokens == {"t1", "t2", ""}
LoginUsers == {[id |-> "u1"], [id |-> "u2"]}

\* sessions begin and end: register, login, the mount fetch of the
\* live-ledger view and its 401, logout
NextSession ==
    \/ \E mode \in {"login", "register"} : SetMode(mode)
    \/ \E field \in {"name", "email", "password"} :
         \E v \in {<<>>, <<"x">>} : EditLogin(field, v)
    \/ SubmitAuth
    \/ \E r \in authReqs : RegisterOk(r)
    \/ \E r \in authReqs, accessToken \in LoginTokens, u \in LoginUsers :
         LoginOk(r, accessToken, u)
    \/ \E r \in authReqs, message \in FewMessages : AuthFail(r, message)
    \/ RenderProtected
    \/ \E r \in dashReqs, part \in Parts : DashUnauthorized(r, part)
    \/ ClickLogout

SessionSpec == InitLogin /\ [][NextSession]_vars

\* the list fetches of both views: filters, reloads and answers
NextLoad ==
    \/ \E value \in {"ALL", "IN"} : ChangeFilter("typeFilter", value)
    \/ Tick
    \/ TimerFire
    \/ RefreshReport
    \/ \E r \in reportReqs, data \in OneList : ReportOk(r, data)
    \/ \E r \in reportReqs : ReportUnauthorized(r)
    \/ \E r \in reportReqs, message \in FewMessages : ReportFail(r, message)
    \/ \E v \in CashTypeFilters : ChangeTypeFilter(v)
    \/ RefreshDashboard
    \/ \E r \in dashReqs, list \in OneList : DashListOk(r, list)
    \/ \E r \in dashReqs :
         \E sum \in OneSummary(r.snap.date) : DashSummaryOk(r, sum)
    \/ \E r \in dashReqs, part \in Parts : DashUnauthorized(r, part)
    \/ \E r \in dashReqs, part \in Parts : DashFail(r, part)
    \/ ClickLogout

\* a list request in flight is answered
ReportCompletes ==
    \/ \E r \in reportReqs, data \in OneList : ReportOk(r, data)
    \/ \E r \in reportReqs : ReportUnauthorized(r)
    \/ \E r \in reportReqs, message \in FewMessages : ReportFail(r, message)

DashCompletes ==
    \/ \E r \in dashReqs, list \in OneList : DashListOk(r, list)
    \/ \E r \in dashReqs :
         \E sum \in OneSummary(r.snap.date) : DashSummaryOk(r, sum)
    \/ \E r \in dashReqs, part \in Parts : DashUnauthorized(r, part)
    \/ \E r \in dashReqs, part \in Parts : DashFail(r, part)

FairLoadSpec ==
    /\ Init
    /\ [][NextLoad]_vars
    /\ WF_vars(ReportCompletes)
    /\ WF_vars(DashCompletes)

\* the receipt workflow under the claim's proviso that a pending decode or
\* upload completes
ScanCompletes ==
    \/ \E s \in scans, payload \in Payloads : ScanResized(s, payload)
    \/ \E s \in scans : ScanDecodeFail(s)
    \/ \E s \in scans, parsed \in Results : ScanOk(s, parsed)
    \/ \E s \in scans, status \in Statuses, message \in ApiMessages :
         ScanUploadFail(s, status, message)

FairScanSpec == ScanSpec /\ WF_vars(ScanCompletes)

\* ================================================================ claims
\* C1: in the mounted report view, since the latest filter change exactly
\* one fetch is pending on the debounce timer or was issued by it, never
\* more: the pending timer holds the final filter state, and the request a
\* timer issued was built from the final filter state.
C1_DebounceOneFetch ==
    route = "reports" =>
        /\ Cardinality(timers) + firedSinceChange = 1
        /\ \A t \in timers : t.snap = filters
        /\ firedSinceChange = 1 => lastTimerParams = ReportParams(filters)

\* two filter changes arrived before any timer fired, and the only request
\* issued so far is the timer's, built from the filter state after both
C1_Witness ==
    /\ route = "reports"
    /\ changes = 2
    /\ issued = 1
    /\ firedSinceChange = 1
    /\ lastTimerParams = ReportParams(filters)
    /\ lastTimerParams # ReportParams(DefaultFilters)

\* C2: a list response is applied to the Result Set (report view: items;
\* live-ledger view: entries) only when it answers the most recently
\* issued request.
C2_LatestWins ==
    [][/\ itemsFrom' # itemsFrom => itemsFrom' = issued
       /\ entriesFrom' # entriesFrom => entriesFrom' = issued]_vars

\* C3: after the receipt upload answered 401 the session store is empty
\* and the login route is requested.
C3_Scan401EndsSession ==
    lastEvent.tag = "scan401" =>
        /\ token = None
        /\ user = None
        /\ route = "login"

\* C4: the step that handles a 401 of a list fetch, a create or a delete
\* clears the token and the user record, requests the login route, sets no
\* error message and leaves the Result Set and the Summary as they were.
C4_UnauthorizedEndsSession ==
    [][lastEvent'.tag \in {"report401", "dash401", "create401", "delete401"} =>
          /\ token' = None
          /\ user' = None
          /\ route' = "login"
          /\ rError' = rError
          /\ cError' = cError
          /\ items' = items
          /\ entries' = entries
          /\ summary' = summary]_vars

\* a delete answered 401 while the list showed entries
C4_Witness ==
    /\ lastEvent.tag = "delete401"
    /\ token = None
    /\ route = "login"
    /\ entries # <<>>
    /\ summary.present

\* the header the claim expects of a request issued while `stored` was the
\* stored token
C5_Expected(stored) ==
    IF stored = None THEN <<>> ELSE <<"Bearer", stored>>

\* C5: every request in flight carries Bearer <token> of the token stored
\* when it was issued, and no Authorization header when none was stored.
C5_BearerOfStoredToken ==
    /\ \A r \in reportReqs : r.auth = C5_Expected(r.tok)
    /\ \A r \in dashReqs : r.auth = C5_Expected(r.tok)
    /\ \A r \in createReqs : r.auth = C5_Expected(r.tok)
    /\ \A r \in deleteReqs : r.auth = C5_Expected(r.tok)
    /\ \A s \in scans : s.pc = "uploading" => s.auth = C5_Expected(s.tok)

\* the session was cleared while a create was in flight, and the dashboard
\* load that follows the create was issued afterwards, without a header
C5_Witness ==
    /\ token = None
    /\ \E r \in dashReqs : r.cont = "create" /\ r.tok = None /\ r.auth = <<>>
    /\ \E r \in dashReqs : r.tok # None /\ r.auth = <<"Bearer", r.tok>>

\* C6: in the mounted live-ledger view, a scan that is marked in progress
\* is eventually marked finished, with the file input reset.
C6_ScanReturnsToIdle ==
    (route = "cash" /\ scanningReceipt)
        ~> (route # "cash" \/ (~scanningReceipt /\ inputValue = ""))

\* an upload has failed and the view is idle again
C6_Witness ==
    /\ route = "cash"
    /\ lastEvent.tag = "scanFail"
    /\ ~scanningReceipt
    /\ inputValue = ""

\* C7: at most one handleScanReceiptFile invocation is suspended at any
\* time, and in the mounted view one is suspended exactly while
\* scanningReceipt is true.
C7_OneScanInFlight ==
    /\ Cardinality(scans) <= 1
    /\ route = "cash" => (scanningReceipt <=> scans # {})

C7_Witness ==
    /\ route = "cash"
    /\ scanningReceipt
    /\ ~TriggerEnabled
    /\ \E s \in scans : s.pc = "uploading"

\* the files the claim accepts
C8_Accepted(file) ==
    \/ (file.type # <<>> /\ file.type[1] = "image/")
    \/ /\ Len(file.name) >= 2
       /\ file.name[Len(file.name) - 1] = "."
       /\ file.name[Len(file.name)] \in
             {"png", "jpg", "jpeg", "webp", "bmp", "gif", "heic", "heif",
              "PNG", "JPG", "JPEG", "WEBP", "BMP", "GIF", "HEIC", "HEIF"}

\* C8: a scan goes on to the resize exactly when the file has an image
\* media type or an image extension; any other file is rejected at once
\* with the invalid-file message, and nothing is started for it.
C8_FileValidation ==
    /\ lastEvent.tag = "scanStart" => C8_Accepted(lastEvent.arg)
    /\ lastEvent.tag = "scanInvalid" =>
          /\ ~C8_Accepted(lastEvent.arg)
          /\ cError = InvalidFile
          /\ ~scanningReceipt
          /\ scans = {}
    /\ \A s \in scans : s.pc = "resizing" => C8_Accepted(s.file)

C8_Witness ==
    /\ lastEvent.tag = "scanInvalid"
    /\ lastEvent.arg = RenamedFile
    /\ cError = InvalidFile

\* C9: after the resize, a payload without the data:image/ prefix is
\* rejected, a payload of more than 9,500,000 characters is rejected with
\* the size message, neither is uploaded, and any other payload is the
\* body of the upload request.
C9_PayloadCap ==
    LET p == lastEvent.arg
        uploads == {s \in scans : s.pc = "uploading"}
    IN  lastEvent.tag \in {"scanBadPrefix", "scanTooLarge", "scanUpload"} =>
          IF p.prefix = <<>> \/ p.prefix[1] # "data:image/"
          THEN /\ lastEvent.tag = "scanBadPrefix"
               /\ uploads = {}
               /\ route = "cash" => cError = InvalidFile
          ELSE IF p.length > 9500000
          THEN /\ lastEvent.tag = "scanTooLarge"
               /\ uploads = {}
               /\ route = "cash" => cError = TooLarge
          ELSE /\ lastEvent.tag = "scanUpload"
               /\ \E s \in uploads : s.payload = p

C9_Witness ==
    /\ lastEvent.tag = "scanTooLarge"
    /\ lastEvent.arg.length = 9600000
    /\ cError = TooLarge
    /\ scans = {}

\* C10: the step that applies a Recognition Result leaves every draft
\* field equal to the result's value when the result has one (0 and the
\* empty string included) and equal to its previous value otherwise.
C10_FieldLevelMerge ==
    [][(lastEvent'.tag = "scanOk" /\ route = "cash") =>
          \A f \in DOMAIN InitialForm :
              form'[f] = IF lastEvent'.arg[f] # <<>>
                         THEN lastEvent'.arg[f][1]
                         ELSE form[f]]_vars

\* a result with amount 0 and no description was merged into a draft whose
\* description the user had typed
C10_Witness ==
    /\ lastEvent.tag = "scanOk"
    /\ lastEvent.arg.amount = <<0>>
    /\ lastEvent.arg.description = <<>>
    /\ form.amount = 0
    /\ form.description = <<"a">>

\* C11: the step that applies a Recognition Result with every draft field
\* undefined leaves the whole draft as it was, and a result that supplies a
\* field leaves that field equal to the supplied value whatever it held.
C11_MergeLaws ==
    [][(lastEvent'.tag = "scanOk" /\ route = "cash") =>
          LET result == lastEvent'.arg
              supplied == {f \in DOMAIN InitialForm : result[f] # <<>>}
          IN  /\ supplied = {} => form' = form
              /\ \A f \in supplied : form'[f] = result[f][1]
              /\ MergeDraft(form, NoResult) = form]_vars

\* an empty result was applied to a draft the user had filled in
C11_Witness ==
    /\ lastEvent.tag = "scanOk"
    /\ \A f \in DOMAIN InitialForm : lastEvent.arg[f] = <<>>
    /\ form.description = <<"a">>
    /\ form.amount = 12050
    /\ form.type = "OUT"

\* C13: the step that applies a Recognition Result with an entryDate makes
\* it the selected date and, when that changes the date, issues a dashboard
\* load for it; a result without entryDate leaves the selected date and the
\* dashboard loads alone.
C13_EntryDateSelectsDate ==
    [][(lastEvent'.tag = "scanOk" /\ route = "cash") =>
          LET result == lastEvent'.arg
          IN  IF result.entryDate # <<>>
              THEN /\ selectedDate' = result.entryDate[1]
                   /\ selectedDate' # selectedDate =>
                         \E r \in dashReqs' \ dashReqs :
                             /\ r.snap.date = selectedDate'
                             /\ r.id = issued'
                             /\ issued' = issued + 1
              ELSE /\ selectedDate' = selectedDate
                   /\ dashReqs' = dashReqs]_vars

C13_Witness ==
    /\ lastEvent.tag = "scanOk"
    /\ lastEvent.arg.entryDate = <<"2024-03-02">>
    /\ selectedDate = "2024-03-02"
    /\ \E r \in dashReqs : r.snap.date = "2024-03-02" /\ r.id = issued

\* C12: when a Recognition Result is applied, every draft field it does not
\* supply keeps the value it has at that moment, and so keeps an edit the
\* user made after the scan started.
C12_EditsSurviveScan ==
    [][(lastEvent'.tag = "scanOk" /\ route = "cash") =>
          \A s \in scans \ scans' :
              \A f \in DOMAIN InitialForm :
                  (lastEvent'.arg[f] = <<>> /\ form[f] # s.draft[f]) =>
                      (form'[f] = form[f] /\ form'[f] # s.draft[f])]_vars

\* the description was typed after the scan started, and is in the draft
\* after a result without a description was applied
C12_Witness ==
    /\ lastEvent.tag = "scanOk"
    /\ lastEvent.arg.description = <<>>
    /\ lastEvent.arg.amount = <<12050>>
    /\ lastEvent.arg.draft.description = <<>>
    /\ form.description = <<"a">>
    /\ form.amount = 12050

\* C14: the step that applies a Recognition Result sets the informational
\* text to the rounded confidence percentage (73 for 0.73, 46 for 0.456, 1
\* for 0.01, 0 for 0.004 and for a missing confidence) and leaves the
\* submit control as it was; a result {amount: 120.5, confidence: 0.73}
\* applied to a draft with a description and amount 0 keeps the description
\* and sets the amount.
C14_ConfidenceAdvisory ==
    [][(lastEvent'.tag = "scanOk" /\ route = "cash") =>
          LET result == lastEvent'.arg
              percent == IF result.confidence = <<>> THEN 0
                         ELSE CASE result.confidence[1] = 730 -> 73
                                [] result.confidence[1] = 456 -> 46
                                [] result.confidence[1] = 10 -> 1
                                [] result.confidence[1] = 4 -> 0
          IN  /\ ocrInfo' = <<"Leitura concluida", percent,
                              "% de confianca. Confira os campos antes de salvar.">>
              /\ submitting' = submitting
              /\ SubmitEnabled' = SubmitEnabled
              /\ cError' = cError
              /\ (result.amount = <<12050>> /\ form.amount = 0
                     /\ form.description = <<"a">>) =>
                    (form'.amount = 12050 /\ form'.description = <<"a">>)]_vars

\* a result of confidence 0.004 filled the amount of a draft that had a
\* description and amount 0, and the submit control is enabled
C14_Witness ==
    /\ lastEvent.tag = "scanOk"
    /\ lastEvent.arg.confidence = <<4>>
    /\ lastEvent.arg.draft.amount = 0
    /\ ocrInfo # <<>>
    /\ ocrInfo[2] = 0
    /\ form.description = <<"a">>
    /\ form.amount = 12050
    /\ SubmitEnabled
    /\ cError = <<>>

\* C15: the displayed entries and the displayed Summary always come from
\* the same loadDashboard invocation; a step changes either of them only by
\* completing an invocation both of whose responses succeeded, and then it
\* sets both, to the two responses of that invocation.
C15_DashboardAtomic ==
    /\ [](/\ entriesFrom = summaryFrom
          /\ summary.present <=> summaryFrom # 0
          /\ entries # <<>> => entriesFrom # 0)
    /\ [][(\/ entries' # entries
           \/ summary' # summary
           \/ entriesFrom' # entriesFrom
           \/ summaryFrom' # summaryFrom) =>
             \E r \in dashReqs \ dashReqs' :
                 /\ \A q \in dashReqs' : q.id # r.id
                 /\ r.listDone \/ r.sumDone
                 /\ r.listDone => entries' = r.listData
                 /\ r.sumDone => summary' = r.sumData
                 /\ summary'.present
                 /\ summary'.date = r.snap.date
                 /\ entriesFrom' = r.id
                 /\ summaryFrom' = r.id]_vars

\* the list and the summary of the second load, for the changed date, are
\* shown
C15_Witness ==
    /\ route = "cash"
    /\ entriesFrom = 2
    /\ summaryFrom = 2
    /\ summary.present
    /\ summary.date = "2024-03-02"
    /\ selectedDate = "2024-03-02"
    /\ entries = <<OutEntry, InEntry>>

\* C16: a step in which a list fetch fails with a status other than 401
\* leaves the Result Set (and the Summary) as they were and leaves a
\* non-empty error message on the view.
C16_FailureKeepsResults ==
    [][/\ (/\ route = "reports"
           /\ reportReqs' # reportReqs
           /\ reportReqs' \subseteq reportReqs
           /\ itemsFrom' = itemsFrom
           /\ lastEvent'.tag # "report401") =>
              (items' = items /\ rError' # <<>>)
       /\ (/\ route = "cash"
           /\ \E r \in dashReqs : \A q \in dashReqs' : q.id # r.id
           /\ entriesFrom' = entriesFrom
           /\ lastEvent'.tag # "dash401") =>
              (/\ entries' = entries
               /\ summary' = summary
               /\ cError' # <<>>)]_vars

\* C17: in either view, while mounted, a loading indicator that is on for a
\* list fetch in flight is eventually off.
C17_LoadingCleared ==
    /\ (route = "reports" /\ loading /\ reportReqs # {})
          ~> (route # "reports" \/ ~loading)
    /\ (route = "cash" /\ loadingDashboard /\ dashReqs # {})
          ~> (route # "cash" \/ ~loadingDashboard)

\* the only fetch of the report view has failed and the indicator is off
C17_Witness ==
    /\ route = "reports"
    /\ issued = 1
    /\ reportReqs = {}
    /\ rError # <<>>
    /\ ~loading

\* C18: no list request in flight has a parameter with an empty value (type
\* or payment ALL, an empty date or amount, a blank category or
\* description), a text parameter is trimmed, and a live-ledger request has
\* the parameter of each filter that is set, with the filter's value.
C18_EmptyPredicatesOmitted ==
    /\ \A r \in reportReqs : \A k \in DOMAIN r.params :
          IF k \in {"category", "description"}
          THEN /\ r.params[k] # <<>>
               /\ Head(r.params[k]) # " "
               /\ r.params[k][Len(r.params[k])] # " "
          ELSE r.params[k] \notin {"", "ALL"}
    /\ \A r \in dashReqs :
          /\ \A k \in DOMAIN r.listParams : r.listParams[k] \notin {"", "ALL"}
          /\ r.snap.date # "" =>
                ("date" \in DOMAIN r.listParams /\ r.listParams.date = r.snap.date)
          /\ r.snap.type # "ALL" =>
                ("type" \in DOMAIN r.listParams /\ r.listParams.type = r.snap.type)
          /\ r.snap.payment # "ALL" =>
                /\ "paymentMethod" \in DOMAIN r.listParams
                /\ r.listParams.paymentMethod = r.snap.payment

\* a cell as the quoting rule writes it, when `special` are the characters
\* that call for quotes
C19_Written(cell, special) ==
    IF \E i \in DOMAIN cell : cell[i] \in special
    THEN <<"\"">> \o DoubleQuotes(cell) \o <<"\"">>
    ELSE cell

\* the document whose cells are written by the quoting rule
C19_Document(rows, special) ==
    LET line(row) ==
            JoinWith(";", [j \in 1..Len(row) |-> C19_Written(row[j], special)])
    IN  <<ByteOrderMark>>
        \o JoinWith("\n", [i \in 1..Len(rows) |-> line(rows[i])])

\* C19 (as the code has it): in the exported document a field is wrapped in
\* double quotes, with every internal double quote doubled, if and only if
\* it contains a double quote, a comma, a semicolon or a newline; so every
\* formatted amount ('45,90') is written quoted.
C19_QuotingRule ==
    lastEvent.tag = "csv" =>
        /\ lastEvent.arg.doc =
              C19_Document(lastEvent.arg.rows, {"\"", ",", ";", "\n"})
        /\ \A i \in 2..Len(lastEvent.arg.rows) :
              EscapeCsv(lastEvent.arg.rows[i][6])
                  = <<"\"">> \o lastEvent.arg.rows[i][6] \o <<"\"">>

\* C19 (as stated): a field is quoted if and only if it contains a double
\* quote, a semicolon or a newline; a field with a comma is written as is.
C19_QuotingRuleAsStated ==
    lastEvent.tag = "csv" =>
        lastEvent.arg.doc = C19_Document(lastEvent.arg.rows, {"\"", ";", "\n"})

\* an export of an entry whose description has quotes and whose category
\* has a newline, followed by one whose description has a semicolon
C19_Witness ==
    /\ lastEvent.tag = "csv"
    /\ items = <<QuotedEntry, SemicolonEntry>>
    /\ Len(lastEvent.arg.rows) = 3
    /\ lastEvent.arg.rows[2][4] = <<"\"", "x", "\"">>
    /\ lastEvent.arg.rows[3][6] = <<"45", ",", "90">>

\* a reader of delimited text: a '"' opens or closes a quoted stretch, so a
\* position is inside quotes when an odd number of '"' precede it
C20_InQuotes(text, i) ==
    Cardinality({j \in 1..(i - 1) : text[j] = "\""}) % 2 = 1

\* the pieces of a text between the separators that stand outside quotes
C20_Split(text, separator) ==
    LET cuts == {i \in DOMAIN text :
                    text[i] = separator /\ ~C20_InQuotes(text, i)}
        n == Cardinality(cuts)
        cut(k) == IF k = 0 THEN 0
                  ELSE IF k = n + 1 THEN Len(text) + 1
                  ELSE CHOOSE p \in cuts :
                           Cardinality({q \in cuts : q < p}) = k - 1
    IN  [k \in 1..(n + 1) |-> SubSeq(text, cut(k - 1) + 1, cut(k) - 1)]

\* the value of a field: a quoted field loses its enclosing quotes and the
\* second '"' of every '""' inside it
C20_Unquote(field) ==
    IF field = <<>> \/ Head(field) # "\"" THEN field
    ELSE LET inner == SubSeq(field, 2, Len(field) - 1)
             kept == {k \in DOMAIN inner :
                         \/ inner[k] # "\""
                         \/ Cardinality({j \in 1..k : inner[j] = "\""}) % 2 = 1}
         IN  [m \in 1..Cardinality(kept) |->
                 inner[CHOOSE p \in kept :
                           Cardinality({q \in kept : q < p}) = m - 1]]

\* the rows of a document: a newline ends a row, ';' separates its fields
C20_Read(text) ==
    LET lines == C20_Split(text, "\n")
    IN  [i \in 1..Len(lines) |->
            LET fields == C20_Split(lines[i], ";")
            IN  [j \in 1..Len(fields) |-> C20_Unquote(fields[j])]]

\* C20: reading the exported document after the byte-order marker yields
\* the header row and one row per entry in Result Set order, each of six
\* fields, equal to the values the export was given.
C20_RoundTrip ==
    lastEvent.tag = "csv" =>
        LET doc == lastEvent.arg.doc
            read == C20_Read(Tail(doc))
        IN  /\ Head(doc) = ByteOrderMark
            /\ read = lastEvent.arg.rows
            /\ Len(read) = 1 + Len(items)
            /\ read[1] = CsvHeader
            /\ \A i \in 1..Len(items) :
                  /\ Len(read[i + 1]) = 6
                  /\ read[i + 1][2] \in {<<"Entrada">>, <<"Saida">>}
                  /\ read[i + 1][2] = <<"Entrada">> <=> items[i].type = "IN"
                  /\ read[i + 1][3] = IF items[i].category = <<>> THEN <<>>
                                      ELSE items[i].category[1]
                  /\ read[i + 1][4] = items[i].description
                  /\ read[i + 1][5] = IF items[i].paymentMethod = <<>> THEN <<>>
                                      ELSE items[i].paymentMethod[1]

\* an export of two entries with quotes, a newline and a semicolon in their
\* texts was read back
C20_Witness ==
    /\ lastEvent.tag = "csv"
    /\ items = <<SemicolonEntry, QuotedEntry>>
    /\ Len(lastEvent.arg.doc) > 30
    /\ \E i \in DOMAIN lastEvent.arg.doc : lastEvent.arg.doc[i] = "\n"
    /\ lastEvent.arg.rows[3][3] = <<"c", "\n", "d">>

\* C21: the totals of the report do not depend on the order of the Result
\* Set: every permutation of the displayed entries folds to the same
\* totalIn, the same totalOut and the same net.
C21_TotalsOrderIndependent ==
    \A p \in Permutations(DOMAIN items) :
        LET permuted == [i \in DOMAIN items |-> items[p[i]]]
        IN  /\ Totals(permuted).totalIn = Totals(items).totalIn
            /\ Totals(permuted).totalOut = Totals(items).totalOut
            /\ Net(Totals(permuted)) = Net(Totals(items))

\* a Result Set of three entries, two of them of type IN with different
\* amounts, is displayed
C21_Witness ==
    /\ itemsFrom # 0
    /\ items = <<TipEntry, SupplierEntry, SaleEntry>>
    /\ Totals(items) = [totalIn |-> 12051, totalOut |-> 4590]

\* the sum of the amounts of the displayed entries at the positions `at`
RECURSIVE C26_Sum(_)
C26_Sum(at) ==
    IF at = {} THEN 0
    ELSE LET i == CHOOSE j \in at : TRUE
         IN  items[i].amount + C26_Sum(at \ {i})

\* C26: in every state of the report view totalIn is the sum of the amounts
\* of the displayed entries of type IN, totalOut the sum of the amounts of
\* all its other entries and net their difference; the summary cards of the
\* screen and the totals of the print-ready report show these three values.
C26_TotalsTrackResultSet ==
    LET sumIn == C26_Sum({i \in DOMAIN items : items[i].type = "IN"})
        sumOut == C26_Sum({i \in DOMAIN items : items[i].type # "IN"})
        shown == [entradas |-> sumIn, saidas |-> sumOut, saldo |-> sumIn - sumOut]
    IN  /\ Totals(items) = [totalIn |-> sumIn, totalOut |-> sumOut]
        /\ Net(Totals(items)) = sumIn - sumOut
        /\ SummaryCards = shown @@ [itens |-> Len(items)]
        /\ PrintReport.summary = shown
        /\ PrintReport.foot = shown

\* a Result Set with more going out than coming in replaced an earlier one
C26_Witness ==
    /\ itemsFrom = 2
    /\ items = <<RentEntry, SaleEntry, SupplierEntry>>
    /\ SummaryCards.saldo = -142540
    /\ reportReqs = {}

\* the payloads a resize has produced: the one the last step of a scan
\* received and the ones being uploaded
C22_Resized ==
    (IF lastEvent.tag \in {"scanUpload", "scanTooLarge"} THEN {lastEvent.arg} ELSE {})
    \cup {s.payload : s \in {t \in scans : t.pc = "uploading"}}

\* C22: for an image of width W and height H (both at least 1) the canvas
\* is round(W*s) by round(H*s) with s = min(1, 1600 / max(W, H)), each at
\* least 1: neither side exceeds 1600, both are at least 1, and an image
\* whose larger side is at most 1600 keeps its dimensions.
C22_ResizeDimensions ==
    \A p \in C22_Resized :
        LET W == p.image.width
            H == p.image.height
            M == IF W >= H THEN W ELSE H
            \* `out` is the integer nearest to side * 1600 / M, or 1
            nearest(side, out) ==
                \/ /\ 2 * (out * M - side * 1600) <= M
                   /\ 2 * (side * 1600 - out * M) <= M
                \/ out = 1 /\ 2 * side * 1600 < M
        IN  /\ p.width >= 1 /\ p.height >= 1
            /\ p.width <= 1600 /\ p.height <= 1600
            /\ M <= 1600 => p.width = W /\ p.height = H
            /\ M > 1600 => nearest(W, p.width) /\ nearest(H, p.height)
            /\ M > 1600 => (p.width = 1600 \/ p.height = 1600)

\* a 500000 x 3 image went down to 1600 x 1 and is being uploaded
C22_Witness ==
    /\ lastEvent.tag = "scanUpload"
    /\ lastEvent.arg.image = [width |-> 500000, height |-> 3]
    /\ lastEvent.arg.width = 1600
    /\ lastEvent.arg.height = 1
    /\ \E s \in scans : s.pc = "uploading" /\ s.payload = lastEvent.arg

\* C23: when the draft's description is empty or only blanks, or its
\* amount is not a finite number above zero, a submit issues no POST and no
\* fetch, shows an error, and leaves the draft, the Result Set, the Summary
\* and the submitting flag as they were.
C23_InvalidDraftNotSent ==
    [][(/\ lastEvent'.tag \in {"createInvalid", "createSubmit"}
        /\ \/ \A i \in DOMAIN form.description : form.description[i] = " "
           \/ form.amount <= 0
           \/ form.amount = Infinity)
       => /\ lastEvent'.tag = "createInvalid"
          /\ createReqs' = createReqs
          /\ dashReqs' = dashReqs
          /\ issued' = issued
          /\ cError' \in {DescriptionRequired, AmountRequired}
          /\ form' = form
          /\ entries' = entries
          /\ summary' = summary
          /\ submitting' = submitting]_vars

\* a draft described by a blank only, and one with a description and a
\* negative amount, were submitted after a Result Set had arrived
C23_Witness ==
    /\ lastEvent.tag = "createInvalid"
    /\ entriesFrom = 1
    /\ \/ form.description = <<" ">> /\ form.amount = 4590
                                     /\ cError = DescriptionRequired
       \/ form.description = <<"f">> /\ form.amount = -100
                                     /\ cError = AmountRequired

C25_LoadingWhileFetching ==
    /\ (route = "reports" /\ reportReqs # {}) => loading
    /\ (route = "cash" /\ dashReqs # {}) => loadingDashboard

\* C27: the exported row of an entry is (formatted timestamp, 'Entrada' or
\* 'Saida', category or blank, description, payment-method label, amount
\* with two fractional digits), the payment-method label being the one the
\* print table shows for that entry ('Dinheiro', 'Cartao', 'PIX').
C27_ExportRowContent ==
    lastEvent.tag = "csv" =>
        \A i \in DOMAIN items :
            LET row == lastEvent.arg.rows[i + 1]
                cents == items[i].amount % 100
            IN  /\ Len(row) = 6
                /\ row[2] = IF items[i].type = "IN" THEN <<"Entrada">>
                                                    ELSE <<"Saida">>
                /\ row[3] = IF items[i].category = <<>> THEN <<>>
                            ELSE items[i].category[1]
                /\ row[4] = items[i].description
                /\ row[6] = <<ToString(items[i].amount \div 100), ",">>
                             \o (IF cents < 10 THEN <<"0", ToString(cents)>>
                                               ELSE <<ToString(cents)>>)
                /\ items[i].paymentMethod # <<>> =>
                       /\ row[5] \in {<<"Dinheiro">>, <<"Cartao">>, <<"PIX">>}
                       /\ row[5] = PrintPaymentCell(items[i])

\* C28: a scan that fails at any step (invalid file, decode failure, bad
\* prefix, oversize payload, rejected upload) leaves the Entry Draft, the
\* selected date and the other filters, the Result Set and the Summary as
\* they were, merges nothing, and shows an error message.
C28_FailedScanTouchesNothing ==
    [][lastEvent'.tag \in {"scanInvalid", "scanDecodeFail", "scanBadPrefix",
                           "scanTooLarge", "scanFail", "scan401"} =>
          /\ form' = form
          /\ selectedDate' = selectedDate
          /\ cTypeFilter' = cTypeFilter
          /\ paymentFilter' = paymentFilter
          /\ entries' = entries
          /\ summary' = summary
          /\ ocrInfo' = NoInfo
          /\ dashReqs' = dashReqs
          /\ route = "cash" => cError' # <<>>]_vars

\* C29: the steps of one scan occur in the order Validate, Resize,
\* prefix/size check, Upload, Merge: a file is resized only after it passed
\* validation, the upload is issued once, by a scan whose resized payload
\* passed the prefix and size checks, and the Recognition Result is merged
\* once, in the step that receives the successful upload response, which
\* ends the scan.
C29_ScanStepOrder ==
    [][/\ \A n \in scans' \ scans :
            /\ n.pc = "resizing" =>
                   /\ lastEvent'.tag = "scanStart"
                   /\ IsLikelyImageFile(n.file)
                   /\ n.id = 0
                   /\ issued' = issued
            /\ n.pc = "uploading" =>
                   /\ lastEvent'.tag = "scanUpload"
                   /\ \E s \in scans \ scans' : s.pc = "resizing" /\ s.id = 0
                   /\ n.payload = lastEvent'.arg
                   /\ Len(n.payload.prefix) >= 1
                   /\ n.payload.prefix[1] = "data:image/"
                   /\ n.payload.length <= 9500000
                   /\ issued' = issued + 1
                   /\ n.id = issued'
            /\ n.pc \in {"resizing", "uploading"}
       /\ lastEvent'.tag \in {"scanBadPrefix", "scanTooLarge", "scanDecodeFail"} =>
            /\ issued' = issued
            /\ \E s \in scans : s.pc = "resizing" /\ scans' = scans \ {s}
       /\ lastEvent'.tag = "scanOk" =>
            /\ \E s \in scans : /\ s.pc = "uploading"
                                /\ s.id \in 1..issued
                                /\ scans' = scans \ {s}
            /\ route = "cash" => ocrInfo' # NoInfo
       /\ lastEvent'.tag \notin {"scanOk", "other"} => form' = form]_vars

\* a scan went through all its steps: its file was accepted, its payload
\* uploaded as request 2, and its Recognition Result merged into the draft
C29_Witness ==
    /\ lastEvent.tag = "scanOk"
    /\ lastEvent.arg.amount = <<12050>>
    /\ lastEvent.arg.draft.amount = 0
    /\ form.amount = 12050
    /\ issued = 2
    /\ scans = {}
    /\ ~scanningReceipt

\* the Filter State of both views
C30_FilterState == <<filters, selectedDate, cTypeFilter, paymentFilter>>

\* a response (or failure) of a list fetch, a summary fetch, a create or a
\* delete is handled in this step
C30_Completion ==
    \/ \E r \in reportReqs : r \notin reportReqs'
    \/ \E r \in dashReqs : r \notin dashReqs'
    \/ \E r \in createReqs : r \notin createReqs'
    \/ \E r \in deleteReqs : r \notin deleteReqs'

\* C30: no completion of a list fetch, a summary fetch, a create or a
\* delete (success, 401 or other failure) changes a component of the Filter
\* State of either view; a step of a scan changes none but the selected
\* date, and that only to the entryDate of its Recognition Result.
C30_CompletionsKeepFilters ==
    [][/\ C30_Completion => C30_FilterState' = C30_FilterState
       /\ (\E s \in scans : s \notin scans') =>
              /\ filters' = filters
              /\ cTypeFilter' = cTypeFilter
              /\ paymentFilter' = paymentFilter
              /\ selectedDate' # selectedDate =>
                     /\ lastEvent'.tag = "scanOk"
                     /\ lastEvent'.arg.entryDate = <<selectedDate'>>]_vars

\* the dashboard fetch that followed a scan's entryDate was applied while
\* the selected date was the scanned one
C30_Witness ==
    /\ route = "cash"
    /\ selectedDate = "2024-03-02"
    /\ entriesFrom = 3
    /\ summaryFrom = 3
    /\ dashReqs = {}
\* C31: the step that applies a successful list fetch leaves as Result Set
\* (report view: items; live-ledger view: entries) exactly the sequence the
\* fetch returned, in its order, so that no earlier entry survives unless the
\* response contains it; every other step leaves the Result Set unchanged.
C31_WholesaleReplacement ==
    [][/\ (lastEvent'.tag = "reportOk" /\ route = "reports") =>
             /\ items' = lastEvent'.arg
             /\ \A i \in DOMAIN items' :
                   \E j \in DOMAIN lastEvent'.arg : lastEvent'.arg[j] = items'[i]
       /\ (lastEvent'.tag = "dashOk" /\ route = "cash") =>
             /\ entries' = lastEvent'.arg
             /\ \A i \in DOMAIN entries' :
                   \E j \in DOMAIN lastEvent'.arg : lastEvent'.arg[j] = entries'[i]
       /\ lastEvent'.tag # "reportOk" => items' = items
       /\ lastEvent'.tag # "dashOk" => entries' = entries]_vars

\* the second response of the report view is shorter than a Result Set of
\* two entries and is shown alone
C31_Witness ==
    /\ route = "reports"
    /\ lastEvent = Event("reportOk", <<InEntry>>)
    /\ itemsFrom = 2
    /\ items = <<InEntry>>

\* the dashboard loads a step has started
C32_Started == {n \in dashReqs' : \A o \in dashReqs : o.id # n.id}

\* C32: in the mounted live-ledger view, the step that changes the selected
\* date, the type filter or the payment filter starts exactly one dashboard
\* load in that same step, with no timer in between: its list request and
\* its summary request are built from the new values and neither is
\* answered yet. This includes the step that changes the selected date and
\* the draft's entryDate together. A step that leaves the three as they
\* were and is not a reload starts none.
C32_ImmediateRefetch ==
    [][/\ (route = "cash" /\ CashSnap' # CashSnap) =>
             /\ Cardinality(C32_Started) = 1
             /\ issued' = issued + 1
             /\ timers' = {}
             /\ \A n \in C32_Started :
                   /\ n.listParams = DashListParams(CashSnap')
                   /\ n.sumParams = [date |-> selectedDate']
                   /\ n.listParams.date = selectedDate'
                   /\ ~n.listDone /\ ~n.sumDone
       /\ (CashSnap' = CashSnap /\ issued' = issued) => C32_Started = {}]_vars

\* the filter-date control has moved the selected date and the draft's
\* entryDate together and one load, the second of the view, asks for that day
C32_Witness ==
    /\ route = "cash"
    /\ selectedDate = "2024-03-02"
    /\ form.entryDate = "2024-03-02"
    /\ issued = 2
    /\ \E n \in dashReqs :
          /\ n.id = 2
          /\ n.listParams = [date |-> "2024-03-02"]
          /\ ~n.listDone /\ ~n.sumDone

\* C33: at most one debounce timer is pending at any time; once the report
\* view is torn down (logout, or a 401 that ends the session) no timer is
\* pending, whether or not one was pending at the teardown, and from then on
\* no step issues a report fetch.
C33_TeardownCancelsDebounce ==
    /\ [](/\ Cardinality(timers) <= 1
          /\ route # "reports" => timers = {})
    /\ [][route' # "reports" =>
             /\ timers' = {}
             /\ \A n \in reportReqs' : \E o \in reportReqs : o.id = n.id
             /\ lastTimerParams' = lastTimerParams]_vars

\* the user changed a filter and logged out before any timer had fired: the
\* timer of that change was pending at the teardown, and it is gone without
\* having issued a request
C33_Witness ==
    /\ route = "login"
    /\ lastEvent.tag = "logout"
    /\ changes = 1
    /\ issued = 0
    /\ firedSinceChange = 0
    /\ reportReqs = {}
    /\ timers = {}

\* C34: in the mounted live-ledger view, a step that changes the selected
\* date (the filter-date control, 'Hoje', or a Recognition Result with an
\* entryDate) leaves the draft's entryDate equal to the new selected date; a
\* Recognition Result with a non-empty entryDate leaves both equal to it; a
\* step other than a scan result that changes the draft's entryDate and not
\* the selected date (the draft's own date field) changes nothing else: not
\* another draft field, not a filter, and it starts no fetch.
C34_DatesMoveTogether ==
    [][route = "cash" =>
         /\ selectedDate' # selectedDate => form'.entryDate = selectedDate'
         /\ (lastEvent'.tag = "scanOk" /\ HasEntryDate(lastEvent'.arg)) =>
               /\ selectedDate' = lastEvent'.arg.entryDate[1]
               /\ form'.entryDate = selectedDate'
         /\ (/\ lastEvent'.tag # "scanOk"
             /\ form'.entryDate # form.entryDate
             /\ selectedDate' = selectedDate) =>
               /\ form' = [form EXCEPT !.entryDate = form'.entryDate]
               /\ UNCHANGED <<dashVars, scanVars, submitting, cError, createReqs,
                              deleteReqs, token, user, route, issued>>]_vars

\* the filter-date control selected another day while no scan was under
\* way: the draft's date shows that day and one load asks for it
C34_Witness ==
    /\ route = "cash"
    /\ selectedDate = "2024-03-02"
    /\ form.entryDate = "2024-03-02"
    /\ lastEvent.tag = "other"
    /\ \E n \in dashReqs : n.id = 2 /\ n.snap.date = "2024-03-02"
    /\ scans = {}
    /\ ocrInfo = NoInfo

\* a POST /cash-entries is answered in this step
C35_Answered == createReqs' # createReqs /\ createReqs' \subseteq createReqs

\* C35: in the mounted live-ledger view, the step in which POST
\* /cash-entries succeeds leaves the draft with amount 0 and an empty
\* description and category, and with the type, paymentMethod and entryDate
\* it had before the step; a step in which the POST fails, with 401 or
\* otherwise, leaves the draft as it was.
C35_DraftResetAfterCreate ==
    [][/\ (lastEvent'.tag = "createOk" /\ route = "cash") =>
             /\ form'.amount = 0
             /\ form'.description = <<>>
             /\ form'.category = <<>>
             /\ form'.type = form.type
             /\ form'.paymentMethod = form.paymentMethod
             /\ form'.entryDate = form.entryDate
       /\ (C35_Answered /\ lastEvent'.tag # "createOk") => form' = form]_vars

\* a draft of an expense paid in cash on another day than the selected one
\* was created: the three texts are reset, the three choices are kept
C35_Witness ==
    /\ route = "cash"
    /\ lastEvent.tag = "createOk"
    /\ form = [type |-> "OUT", paymentMethod |-> "CASH", amount |-> 0,
               description |-> <<>>, category |-> <<>>,
               entryDate |-> "2024-03-02"]
    /\ selectedDate = Today
    /\ \E n \in dashReqs :
          /\ n.cont = "create"
          /\ n.posted[1].category = <<"c">>
          /\ n.posted[1].amount = 12050

\* the creates in progress: a POST in flight, or the dashboard load that a
\* successful create awaits
C36_InProgress ==
    {r.id : r \in createReqs} \cup {r.id : r \in {d \in dashReqs : d.cont = "create"}}

\* C36: at most one POST /cash-entries is in flight at any time. In the
\* mounted live-ledger view at most one create is in progress, from its POST
\* until its follow-up dashboard load has completed; while one is, the
\* submitting flag is true and the submit control is disabled; when none is
\* (after success, a 401 or another failure), the flag is false.
C36_SingleCreateInFlight ==
    /\ Cardinality(createReqs) <= 1
    /\ route = "cash" =>
          /\ Cardinality(C36_InProgress) <= 1
          /\ C36_InProgress # {} => (submitting /\ ~SubmitEnabled)
          /\ C36_InProgress = {} => ~submitting

\* a first create was rejected, a second one succeeded and awaits its
\* dashboard load, whose list has arrived: the flag is still set
C36_Witness ==
    /\ route = "cash"
    /\ submitting
    /\ createReqs = {}
    /\ \E d \in dashReqs :
          /\ d.id = 4
          /\ d.cont = "create"
          /\ d.listDone /\ ~d.sumDone

\* the requests a step has issued from the report view
C37_Issued == {n \in reportReqs' : \A o \in reportReqs : o.id # n.id}

\* C37: the step of 'clear filters' leaves all seven filters at their
\* defaults and issues no request itself. When a filter was not at its
\* default, the step leaves exactly one pending timer, due in 250 ms, for
\* the default filters; when every filter was at its default, the step
\* leaves the timers as they were. A timer issues its request only after its
\* delay has run out, and the request of a timer for the default filters
\* has no parameter.
C37_ClearFilters ==
    [][/\ lastEvent'.tag = "clearFilters" =>
             /\ filters' = DefaultFilters
             /\ filters'.typeFilter = "ALL"
             /\ \A f \in {"dateFrom", "dateTo", "minAmount", "maxAmount"} :
                   filters'[f] = ""
             /\ \A f \in {"category", "description"} : filters'[f] = <<>>
             /\ C37_Issued = {}
             /\ issued' = issued
             /\ IF filters # DefaultFilters
                THEN timers' = {[snap |-> DefaultFilters, due |-> 250]}
                ELSE timers' = timers
       /\ \A t \in timers \ timers' :
             (issued' = issued + 1 /\ route' = route) =>
                /\ t.due = 0
                /\ Cardinality(C37_Issued) = 1
                /\ \A n \in C37_Issued :
                      /\ n.params = ReportParams(t.snap)
                      /\ t.snap = DefaultFilters => DOMAIN n.params = {}]_vars

\* a filter was set and then all were cleared: one timer of 250 ms is
\* pending for the default filters and nothing has been requested yet
C37_Witness ==
    /\ route = "reports"
    /\ lastEvent.tag = "clearFilters"
    /\ changes = 2
    /\ filters = DefaultFilters
    /\ timers = {[snap |-> DefaultFilters, due |-> DebounceMs]}
    /\ issued = 0

\* the dashboard loads a step has started
C38_Refetched == {n \in dashReqs' : \A o \in dashReqs : o.id # n.id}

\* C38: a step that sends a DELETE, or in which a DELETE fails or answers
\* 401, starts no dashboard load; the step in which a DELETE succeeds
\* starts the one re-fetch, after the DELETE has been answered. In the
\* mounted live-ledger view the step in which a DELETE fails with another
\* status than 401 leaves the Result Set and the Summary as they were and
\* leaves a non-empty error message.
C38_DeleteOrderingAndFrame ==
    [][/\ (deleteReqs' # deleteReqs /\ lastEvent'.tag # "deleteOk") =>
             C38_Refetched = {}
       /\ lastEvent'.tag = "deleteOk" =>
             /\ Cardinality(C38_Refetched) = 1
             /\ \E r \in deleteReqs : deleteReqs' = deleteReqs \ {r}
             /\ \A n \in C38_Refetched : ~n.listDone /\ ~n.sumDone
       /\ lastEvent'.tag = "deleteFail" =>
             /\ C38_Refetched = {}
             /\ issued' = issued
             /\ entries' = entries
             /\ summary' = summary
             /\ route = "cash" => cError' # <<>>]_vars

\* a listed entry's DELETE was rejected: the list and the Summary still
\* show what the mount fetch returned, with the error message, and nothing
\* is being fetched
C38_Witness ==
    /\ route = "cash"
    /\ lastEvent.tag = "deleteFail"
    /\ entries # <<>>
    /\ entriesFrom = 1
    /\ summary.present
    /\ cError = DeleteFallback
    /\ dashReqs = {}
    /\ deleteReqs = {}

\* C39: in every state the token is stored exactly when the user record
\* is, and isAuthenticated() is true exactly when the stored token is one
\* of the non-empty tokens. The step of a successful login stores the
\* token and the user it received; a logout and a 401 of a request remove
\* both; every other step (a submit, a failed login, a register that
\* succeeds or fails, a render) leaves both as they were.
C39_SessionStoreCoherence ==
    /\ [](/\ TokenStored <=> user # None
          /\ IsAuthenticated <=> token \in {"t1", "t2"})
    /\ [][/\ lastEvent'.tag = "loginOk" =>
                 /\ token' = lastEvent'.arg.accessToken
                 /\ user' = lastEvent'.arg.user.id
                 /\ JsonParse(user').value = lastEvent'.arg.user
          /\ lastEvent'.tag \in {"logout", "dash401"} =>
                 token' = None /\ user' = None
          /\ lastEvent'.tag \notin {"loginOk", "logout", "dash401"} =>
                 token' = token /\ user' = user]_vars

\* a second session: after the first one ended, another login stored
\* another token and another user
C39_Witness ==
    /\ lastEvent.tag = "loginOk"
    /\ route = "cash"
    /\ token = "t2"
    /\ user = "u2"
    /\ issued = 4
    /\ IsAuthenticated

====
